---------------------------- MODULE Spec2Model ----------------------------
(***************************************************************************)
(* A model of koron-go/srcdom: the scanner that turns a parsed Go file     *)
(* (go/ast) into a Package of imports, values, funcs and types             *)
(* (src/parser.go, src/srcdom.go) and the type-signature renderer          *)
(* (src/unnamed/part_000, second file of the part: lines 130-290).         *)
(*                                                                         *)
(* Identifiers and rendered signatures are TLA+ strings.  Text that the    *)
(* code walks byte by byte (literals, struct tags) is a sequence of        *)
(* one-byte strings.  Go's 0-based slice indices are kept in the index     *)
(* maps; the element at index i of a slice s is s[i + 1] here.             *)
(***************************************************************************)
EXTENDS Integers, Sequences, FiniteSets, TLC

VARIABLES
    pkg,     \* Parser.Package: NilPackage or a Package record
    pc,      \* "idle": no ScanFile call in progress; "scan": inside its loop
    entry,   \* Parser.Package as it was when the ScanFile call was entered
    fname,   \* file.Name.Name of the file of the current / last ScanFile call
    cur,     \* the declaration the last loop iteration of ScanFile processed
    err,     \* whether the last ScanFile call returned an error
    nfiles,  \* number of ScanFile calls made
    ndecls,  \* number of declarations scanned over all calls
    x,       \* input of the function under check (renderer, tag parser, reader)
    out      \* its output

vars == <<pkg, pc, entry, fname, cur, err, nfiles, ndecls, x, out>>

(***************************************************************************)
(* Bounds of the model.                                                    *)
(***************************************************************************)
\* bytes of a tag text drawn freely
MaxTagLen == 5

\* comment groups of a file of the build filter
MaxGroups == 2
MaxRunLen == 4

\* ScanFile calls in one behaviour
MaxFiles == 2

\* declarations scanned in one behaviour, over all files
MaxDecls == 3

\* fields of a parameter or result list of a rendered function type
MaxFields == 2

(***************************************************************************)
(* go/ast nodes.  An expression is a record tagged by k.                   *)
(***************************************************************************)
NilExpr == [k |-> "nil"]

Ident(n) == [k |-> "Ident", Name |-> n]

SelectorExpr(e, sel) == [k |-> "SelectorExpr", X |-> e, Sel |-> sel]

StarExpr(e) == [k |-> "StarExpr", X |-> e]

ArrayType(e) == [k |-> "ArrayType", Elt |-> e]

Ellipsis(e) == [k |-> "Ellipsis", Elt |-> e]

MapType(key, val) == [k |-> "MapType", Key |-> key, Value |-> val]

\* dir: "SEND|RECV", "SEND" or "RECV"
ChanType(dir, val) == [k |-> "ChanType", Dir |-> dir, Value |-> val]

\* an expression kind typeString has no case for (ast.ParenExpr, ast.IndexExpr ...)
ParenExpr(e) == [k |-> "ParenExpr", X |-> e]

\* params, results: the List of the ast.FieldList (nil and empty lists alike: <<>>)
FuncType(params, results) == [k |-> "FuncType", Params |-> params, Results |-> results]

StructType(fields) == [k |-> "StructType", Fields |-> fields]

InterfaceType(methods) == [k |-> "InterfaceType", Methods |-> methods]

\* ast.BasicLit of a field tag; NoTag is the nil pointer
NoTag == [nil |-> TRUE]

BasicLit(kind, value) == [nil |-> FALSE, Kind |-> kind, Value |-> value]

\* ast.Field: names are identifiers, typ an expression, tag a BasicLit or NoTag
AstField(names, typ, tag) == [Names |-> names, Type |-> typ, Tag |-> tag]

\* a field without a tag (parameters, results, receivers, interface methods)
Fld(names, typ) == AstField(names, typ, NoTag)

(***************************************************************************)
(* The renderer.                                                           *)
(***************************************************************************)
RECURSIVE typeString(_)

RECURSIVE baseTypeName(_)

\* baseTypeName returns [name, imported]
baseTypeName(e) ==
    CASE e.k = "Ident" -> [name |-> e.Name, imported |-> FALSE]
      [] e.k = "SelectorExpr" ->
            IF e.X.k = "Ident"
            THEN [name |-> e.Sel, imported |-> TRUE]
            ELSE [name |-> "", imported |-> FALSE]
      [] e.k = "StarExpr" -> baseTypeName(e.X)
      [] OTHER -> [name |-> "", imported |-> FALSE]

firstName(names) == IF Len(names) = 0 THEN "" ELSE names[1]

toVar(f) ==
    LET typ == typeString(f.Type)
    IN IF Len(f.Names) = 0
       THEN << [Name |-> "", Type |-> typ] >>
       ELSE [i \in 1..Len(f.Names) |-> [Name |-> f.Names[i], Type |-> typ]]

RECURSIVE toVarArray(_)

toVarArray(fl) ==
    IF Len(fl) = 0 THEN <<>>
    ELSE toVar(Head(fl)) \o toVarArray(Tail(fl))

RECURSIVE typesString(_)

\* the types of vars joined by ", "
typesString(vs) ==
    IF Len(vs) = 0 THEN ""
    ELSE IF Len(vs) = 1 THEN vs[1].Type
    ELSE typesString(SubSeq(vs, 1, Len(vs) - 1)) \o ", " \o vs[Len(vs)].Type

toFunc(name, funcType) ==
    IF funcType = NilExpr
    THEN [Name |-> name, Params |-> <<>>, Results |-> <<>>]
    ELSE [Name |-> name,
          Params |-> toVarArray(funcType.Params),
          Results |-> toVarArray(funcType.Results)]

\* writeResults without its case for one result (a mutation of writeResults)
writeResultsAlwaysParen(fn) ==
    IF Len(fn.Results) = 0 THEN "" ELSE " (" \o typesString(fn.Results) \o ")"

\* Func.writeResults: the text it appends to the builder
writeResults(fn) ==
    LET rets == typesString(fn.Results)
    IN CASE Len(fn.Results) = 0 -> ""
         [] Len(fn.Results) = 1 -> " " \o rets
         [] OTHER -> " (" \o rets \o ")"

RECURSIVE structBody(_, _)

\* the loop of typeString's StructType case over Fields.List, from index i
structBody(fl, i) ==
    IF i > Len(fl) THEN ""
    ELSE (IF i > 1 THEN "; " ELSE "")
         \o firstName(fl[i].Names) \o " " \o typeString(fl[i].Type)
         \o structBody(fl, i + 1)

RECURSIVE interfaceBody(_, _)

\* the loop of typeString's InterfaceType case over Methods.List, from index i;
\* a member that is no FuncType makes the code panic and has no case here
interfaceBody(ml, i) ==
    IF i > Len(ml) THEN ""
    ELSE (IF i > 1 THEN "; " ELSE "")
         \o (CASE ml[i].Type.k = "FuncType" ->
                LET fn == toFunc("", ml[i].Type)
                IN firstName(ml[i].Names) \o "(" \o typesString(fn.Params) \o ")"
                   \o writeResults(fn))
         \o interfaceBody(ml, i + 1)

typeString(e) ==
    CASE e.k = "Ident" -> e.Name
      [] e.k = "SelectorExpr" ->
            IF e.X.k = "Ident" THEN typeString(e.X) \o "." \o e.Sel ELSE ""
      [] e.k = "StarExpr" -> "*" \o typeString(e.X)
      [] e.k = "FuncType" ->
            LET fn == toFunc("", e)
            IN "func (" \o typesString(fn.Params) \o ")" \o writeResults(fn)
      [] e.k = "Ellipsis" -> "..." \o typeString(e.Elt)
      [] e.k = "ArrayType" -> "[]" \o typeString(e.Elt)
      [] e.k = "MapType" -> "map[" \o typeString(e.Key) \o "]" \o typeString(e.Value)
      [] e.k = "StructType" ->
            IF Len(e.Fields) = 0 THEN "struct{}"
            ELSE "struct { " \o structBody(e.Fields, 1) \o " }"
      [] e.k = "InterfaceType" ->
            IF Len(e.Methods) = 0 THEN "interface{}"
            ELSE "interface { " \o interfaceBody(e.Methods, 1) \o " }"
      [] e.k = "ChanType" ->
            (CASE e.Dir = "SEND|RECV" -> "chan"
               [] e.Dir = "SEND" -> "chan<-"
               [] e.Dir = "RECV" -> "<-chan") \o " " \o typeString(e.Value)
      [] OTHER -> ""   \* warnf, then return ""

(***************************************************************************)
(* Byte text.  Byte(c) is the byte value of the one-byte string c; the     *)
(* texts of the model are made of the bytes listed here.                   *)
(***************************************************************************)
\* the back quote, which a TLA+ string cannot hold
BQ == "BQ"

Byte(c) ==
    CASE c = "\t" -> 9
      [] c = " " -> 32
      [] c = "\"" -> 34
      [] c = "," -> 44
      [] c = ":" -> 58
      [] c = "\\" -> 92
      [] c = "N" -> 78
      [] c = BQ -> 96
      [] c = "a" -> 97
      [] c = "b" -> 98
      [] c = "e" -> 101
      [] c = "i" -> 105
      [] c = "j" -> 106
      [] c = "k" -> 107
      [] c = "l" -> 108
      [] c = "m" -> 109
      [] c = "n" -> 110
      [] c = "o" -> 111
      [] c = "p" -> 112
      [] c = "r" -> 114
      [] c = "s" -> 115
      [] c = "t" -> 116
      [] c = "x" -> 120
      [] c = "y" -> 121

Contains(s, c) == \E i \in 1..Len(s) : s[i] = c

RECURSIVE unquoteChars(_, _)

\* strconv.Unquote's loop over the body of a double-quoted literal (UnquoteChar
\* per character), acc being the text decoded so far
unquoteChars(body, acc) ==
    IF Len(body) = 0 THEN [err |-> FALSE, val |-> acc]
    ELSE LET c == body[1]
         IN IF c = "\"" THEN [err |-> TRUE, val |-> <<>>]
            ELSE IF c # "\\" THEN unquoteChars(Tail(body), Append(acc, c))
            ELSE IF Len(body) <= 1 THEN [err |-> TRUE, val |-> <<>>]
            ELSE LET e == body[2]
                     rest == SubSeq(body, 3, Len(body))
                 IN CASE e = "\\" -> unquoteChars(rest, Append(acc, "\\"))
                      [] e = "\"" -> unquoteChars(rest, Append(acc, "\""))
                      [] e = "t" -> unquoteChars(rest, Append(acc, "\t"))
                      [] e = "n" -> unquoteChars(rest, Append(acc, "\n"))
                      [] e = "r" -> unquoteChars(rest, Append(acc, "\r"))
                      \* no escape starts with one of these bytes; the escapes
                      \* \a \b \f \v \x \u \U \' and the octal ones are in
                      \* no text of the model
                      [] e \in {"\t", " ", ",", ":", BQ, "N", "e", "i", "j", "k", "l",
                                "m", "o", "p", "s", "y"} ->
                           [err |-> TRUE, val |-> <<>>]

\* strconv.Unquote on the texts of the model (no single-quoted literal, no
\* newline or carriage return): [err, val]
Unquote(s) ==
    LET n == Len(s)
    IN IF n < 2 THEN [err |-> TRUE, val |-> <<>>]
       ELSE IF s[1] # s[n] THEN [err |-> TRUE, val |-> <<>>]
       ELSE LET body == SubSeq(s, 2, n - 1)
            IN CASE s[1] = BQ ->
                      IF Contains(body, BQ) THEN [err |-> TRUE, val |-> <<>>]
                      ELSE [err |-> FALSE, val |-> body]
                 [] s[1] = "\"" ->
                      IF ~Contains(body, "\\") /\ ~Contains(body, "\"")
                      THEN [err |-> FALSE, val |-> body]
                      ELSE unquoteChars(body, <<>>)
                 [] OTHER -> [err |-> TRUE, val |-> <<>>]

(***************************************************************************)
(* Name-keyed index maps (map[string]int).  A nil map and an empty map     *)
(* read alike: both are the function with the empty domain.                *)
(***************************************************************************)
EmptyIdx == <<>>

Has(m, key) == key \in DOMAIN m

\* a map write that keeps the value of a key already present (a mutation of MapPut)
MapPutKeepFirst(m, key, v) == IF key \in DOMAIN m THEN m ELSE (key :> v) @@ m

\* m[key] = v
MapPut(m, key, v) == (key :> v) @@ m

(***************************************************************************)
(* Tag, TagValue.                                                          *)
(***************************************************************************)
EmptyTag == [Raw |-> <<>>, Values |-> <<>>, valueIdx |-> EmptyIdx]

putTagValue(tag, v) ==
    [tag EXCEPT !.valueIdx = MapPut(tag.valueIdx, v.Name, Len(tag.Values)),
                !.Values = Append(tag.Values, v)]

\* Tag.TagValue: the pointer returned (nil, or the entry val) and the flag ok
TagValue(tag, n) ==
    IF ~Has(tag.valueIdx, n) THEN [nil |-> TRUE, ok |-> FALSE]
    ELSE [nil |-> FALSE, val |-> tag.Values[tag.valueIdx[n] + 1], ok |-> FALSE]

\* \s of the regexp, on the bytes of the model
IsSpace(c) == c \in {"\t", "\n", "\r", " "}

RECURSIVE splitSpace(_, _)

\* tagValueRx.Split(s, -1) for the regexp \s+ : s cut at every maximal run of
\* white space, empty pieces at both ends included; acc is the piece being read
splitSpace(s, acc) ==
    IF Len(s) = 0 THEN <<acc>>
    ELSE IF IsSpace(s[1])
         THEN IF Len(s) > 1 /\ IsSpace(s[2])
              THEN splitSpace(Tail(s), acc)
              ELSE <<acc>> \o splitSpace(Tail(s), <<>>)
         ELSE splitSpace(Tail(s), Append(acc, s[1]))

parseTagValue(name, s) ==
    [Name |-> name, Raw |-> s, Values |-> splitSpace(s, <<>>)]

RECURSIVE skipAnySpace(_, _)

\* a mutation of skipSpace: tabs are skipped as well
skipAnySpace(tag, i) ==
    IF i < Len(tag) /\ IsSpace(tag[i + 1]) THEN skipAnySpace(tag, i + 1) ELSE i

RECURSIVE skipSpace(_, _)

\* first 0-based index i >= from with tag[i] # ' ', or len(tag)
skipSpace(tag, i) ==
    IF i < Len(tag) /\ tag[i + 1] = " " THEN skipSpace(tag, i + 1) ELSE i

\* tag[i] > ' ' && tag[i] != ':' && tag[i] != '"' && tag[i] != 0x7f, b being
\* the value of the byte c
isKeyByte(c, b) == b > 32 /\ c # ":" /\ c # "\"" /\ b # 127

RECURSIVE scanKey(_, _)

scanKey(tag, i) ==
    IF i < Len(tag) /\ isKeyByte(tag[i + 1], Byte(tag[i + 1]))
    THEN scanKey(tag, i + 1)
    ELSE i

RECURSIVE scanQuoted(_, _)

scanQuoted(tag, i) ==
    IF i < Len(tag) /\ tag[i + 1] # "\""
    THEN scanQuoted(tag, IF tag[i + 1] = "\\" THEN i + 2 ELSE i + 1)
    ELSE i

\* tag[i:] of Go
From(tag, i) == SubSeq(tag, i + 1, Len(tag))

RECURSIVE parseTagLoop(_, _)

\* the end of an iteration of parseTag's loop: u is what Unquote gave for the
\* quoted value, tag the input left after it
parseTagPut(dst, name, u, tag) ==
    IF u.err THEN dst
    ELSE parseTagLoop(putTagValue(dst, parseTagValue(name, u.val)), tag)

\* after the scan of the quoted string: tag starts at the opening quote, i is
\* the index the scan stopped at
parseTagQuoted(dst, name, tag, i) ==
    IF i >= Len(tag) THEN dst
    ELSE parseTagPut(dst, name, Unquote(SubSeq(tag, 1, i + 1)), From(tag, i + 1))

\* after the scan to the colon: i is the index the scan stopped at
parseTagKey(dst, tag, i) ==
    IF i = 0 \/ i + 1 >= Len(tag) \/ tag[i + 1] # ":" \/ tag[i + 2] # "\""
    THEN dst
    ELSE parseTagQuoted(dst, SubSeq(tag, 1, i), From(tag, i + 1),
                        scanQuoted(From(tag, i + 1), 1))

\* after the leading space was skipped
parseTagSkipped(dst, tag) ==
    IF Len(tag) = 0 THEN dst ELSE parseTagKey(dst, tag, scanKey(tag, 0))

\* the for loop of parseTag: dst is the Tag built so far, tag the remaining input
parseTagLoop(dst, tag) ==
    IF Len(tag) = 0 THEN dst
    ELSE parseTagSkipped(dst, From(tag, skipSpace(tag, 0)))

parseTag(tag) == parseTagLoop([EmptyTag EXCEPT !.Raw = tag], tag)

\* a *string argument: nil, or a pointer to the string s
NilString == [nil |-> TRUE]

StringPtr(s) == [nil |-> FALSE, s |-> s]

\* a mutation of has: any entry with a token list has the value
hasAnyToken(tv, value) == Len(tv.Values) > 0

\* TagValue.has
has(tv, value) == \E i \in 1..Len(tv.Values) : tv.Values[i] = value

\* a mutation of match: the key alone decides
matchKeyOnly(tag, name, value) ==
    \E i \in 1..Len(tag.Values) : tag.Values[i].Name = name

\* Tag.match
match(tag, name, value) ==
    \E i \in 1..Len(tag.Values) :
        /\ tag.Values[i].Name = name
        /\ (value.nil \/ has(tag.Values[i], value.s))

\* the return of toTag, u being what Unquote gave for the literal
toTagUnquoted(u) ==
    IF u.err THEN [err |-> TRUE, tag |-> EmptyTag]
    ELSE [err |-> FALSE, tag |-> parseTag(u.val)]

\* Parser.toTag: [err, tag]
toTag(lit) ==
    IF lit.nil THEN [err |-> FALSE, tag |-> EmptyTag]
    ELSE IF lit.Kind = "STRING" THEN toTagUnquoted(Unquote(lit.Value))
    ELSE [err |-> TRUE, tag |-> EmptyTag]

\* the return of toField, t being what toTag gave
toFieldTagged(f, t) ==
    [err |-> t.err,
     f |-> [Name |-> firstName(f.Names), Type |-> typeString(f.Type), Tag |-> t.tag]]

\* Parser.toField: [err, f]
toField(f) == toFieldTagged(f, toTag(f.Tag))

(***************************************************************************)
(* Type.                                                                   *)
(***************************************************************************)
\* &Type{Name: name}
NewType(name) ==
    [Name |-> name, Defined |-> FALSE, IsStruct |-> FALSE, IsInterface |-> FALSE,
     Embeds |-> <<>>, embedIdx |-> EmptyIdx,
     Fields |-> <<>>, fieldIdx |-> EmptyIdx,
     Methods |-> <<>>, methodIdx |-> EmptyIdx]

putEmbed(typ, typeName) ==
    [typ EXCEPT !.embedIdx = MapPut(typ.embedIdx, typeName, Len(typ.Embeds)),
                !.Embeds = Append(typ.Embeds, typeName)]

\* Type.Embed
Embed(typ, n) == Has(typ.embedIdx, n)

putField(typ, f) ==
    [typ EXCEPT !.fieldIdx = MapPut(typ.fieldIdx, f.Name, Len(typ.Fields)),
                !.Fields = Append(typ.Fields, f)]

putMethod(typ, fun) ==
    [typ EXCEPT !.methodIdx = MapPut(typ.methodIdx, fun.Name, Len(typ.Methods)),
                !.Methods = Append(typ.Methods, fun)]

\* Type.FieldsByTag: name and value are declared and never assigned from
\* tagQuery, so every field is matched against the key "" with a nil value
FieldsByTag(typ, tagQuery) ==
    LET name == <<>>
        value == NilString
        hit(f) == match(f.Tag, name, value)
    IN SelectSeq(typ.Fields, hit)

(***************************************************************************)
(* Package.                                                                *)
(***************************************************************************)
\* the nil *Package of a new Parser
NilPackage == [nil |-> TRUE]

\* &Package{Name: name}
NewPackage(name) ==
    [Name |-> name, Imports |-> <<>>,
     Values |-> <<>>, valIdx |-> EmptyIdx,
     Funcs |-> <<>>, funIdx |-> EmptyIdx,
     Types |-> <<>>, typIdx |-> EmptyIdx]

putValue(p, v) ==
    [p EXCEPT !.valIdx = MapPut(p.valIdx, v.Name, Len(p.Values)),
              !.Values = Append(p.Values, v)]

putFunc(p, fun) ==
    [p EXCEPT !.funIdx = MapPut(p.funIdx, fun.Name, Len(p.Funcs)),
              !.Funcs = Append(p.Funcs, fun)]

putType(p, typ) ==
    [p EXCEPT !.typIdx = MapPut(p.typIdx, typ.Name, Len(p.Types)),
              !.Types = Append(p.Types, typ)]

\* assureType without its lookup (a mutation of assureType)
assureTypeAlwaysNew(p, name) == putType(p, NewType(name))

\* Package.assureType: the package once a Type named name is in it; the *Type
\* the code returns is the entry p.typIdx[name] of the result
assureType(p, name) ==
    IF Has(p.typIdx, name) THEN p ELSE putType(p, NewType(name))

\* the position in Types (1-based) of the *Type that Package.Type(name) returns
TypePos(p, name) == p.typIdx[name] + 1

\* the shape shared by Package.Func, Package.Type, Type.Field and Type.Method:
\* the entry of seq the index idx holds for n, and whether there is one
Lookup(seq, idx, n) ==
    IF ~Has(idx, n) THEN [ok |-> FALSE]
    ELSE [ok |-> TRUE, val |-> seq[idx[n] + 1]]

\* Package.Func
PkgFunc(p, name) == Lookup(p.Funcs, p.funIdx, name)

\* Package.Type
PkgType(p, name) == Lookup(p.Types, p.typIdx, name)

\* Type.Field
TypeField(typ, n) == Lookup(typ.Fields, typ.fieldIdx, n)

\* Type.Method
TypeMethod(typ, n) == Lookup(typ.Methods, typ.methodIdx, n)

(***************************************************************************)
(* Parser: the readers.  Each returns [err, pkg]: whether it returned an   *)
(* error and Parser.Package as it left it.                                 *)
(***************************************************************************)
RECURSIVE readImports(_, _, _)

\* readGenDecl's loop over the specs of an import declaration, from spec i;
\* each spec goes through readImport
readImports(p, specs, i) ==
    IF i > Len(specs) THEN [err |-> FALSE, pkg |-> p]
    ELSE LET u == Unquote(specs[i].Path)
         IN IF u.err THEN [err |-> TRUE, pkg |-> p]
            ELSE readImports(
                   [p EXCEPT !.Imports =
                        Append(p.Imports, [Name |-> specs[i].Name, Path |-> u.val])],
                   specs, i + 1)

RECURSIVE putValues(_, _, _, _, _)

\* readValue's inner loop over s.Names, from name i
putValues(p, names, typeName, isConst, i) ==
    IF i > Len(names) THEN p
    ELSE putValues(putValue(p, [Name |-> names[i], Type |-> typeName, IsConst |-> isConst]),
                   names, typeName, isConst, i + 1)

RECURSIVE readValueLoop(_, _, _, _, _)

\* readValue's loop over d.Specs, from spec i; prev and isConst are its locals
readValueLoop(p, d, isConst, prev, i) ==
    IF i > Len(d.Specs) THEN [err |-> FALSE, pkg |-> p]
    ELSE LET s == d.Specs[i]
             nilType == s.Type = NilExpr
             b == baseTypeName(s.Type)
             typeName == CASE nilType -> IF ~b.imported THEN b.name ELSE ""
                           [] d.Tok = "CONST" -> prev
                           [] OTHER -> ""
             isConst2 == IF ~nilType /\ d.Tok = "CONST" THEN TRUE ELSE isConst
         IN readValueLoop(putValues(p, s.Names, typeName, isConst2, 1),
                          d, isConst2, prev, i + 1)

readValue(p, d, isConst) == readValueLoop(p, d, isConst, "", 1)

\* p with the Type at position pos replaced by typ (a write through the *Type)
SetType(p, pos, typ) == [p EXCEPT !.Types[pos] = typ]

RECURSIVE readStructLoop(_, _, _)

\* readStructType's loop over st.Fields.List, from field i: [err, typ]
readStructLoop(typ, fl, i) ==
    IF i > Len(fl) THEN [err |-> FALSE, typ |-> typ]
    ELSE LET r == toField(fl[i])
         IN IF r.err THEN [err |-> TRUE, typ |-> typ]
            ELSE IF r.f.Name = ""
                 THEN [err |-> FALSE, typ |-> putEmbed(typ, r.f.Type)]   \* break
                 ELSE readStructLoop(putField(typ, r.f), fl, i + 1)

readStructType(st, typ) == readStructLoop([typ EXCEPT !.IsStruct = TRUE], st.Fields, 1)

RECURSIVE readInterfaceLoop(_, _, _)

\* readInterfaceType's loop over it.Methods.List, from member i: [err, typ]
readInterfaceLoop(typ, ml, i) ==
    IF i > Len(ml) THEN [err |-> FALSE, typ |-> typ]
    ELSE LET ft == ml[i].Type
         IN CASE ft.k = "FuncType" ->
                   readInterfaceLoop(putMethod(typ, toFunc(firstName(ml[i].Names), ft)),
                                     ml, i + 1)
              [] ft.k \in {"SelectorExpr", "Ident"} ->
                   readInterfaceLoop(putEmbed(typ, typeString(ft)), ml, i + 1)
              [] OTHER -> [err |-> TRUE, typ |-> typ]

readInterfaceType(it, typ) == readInterfaceLoop(typ, it.Methods, 1)

\* readTypeFields on the *Type typ: [err, typ]
readTypeFields(expr, typ) ==
    CASE expr.k = "StructType" ->
            IF Len(expr.Fields) = 0
            THEN [err |-> FALSE, typ |-> [typ EXCEPT !.IsStruct = TRUE]]
            ELSE readStructType(expr, [typ EXCEPT !.IsStruct = TRUE])
      [] expr.k = "InterfaceType" ->
            IF Len(expr.Methods) = 0
            THEN [err |-> FALSE, typ |-> [typ EXCEPT !.IsInterface = TRUE]]
            ELSE readInterfaceType(expr, [typ EXCEPT !.IsInterface = TRUE])
      [] OTHER -> [err |-> FALSE, typ |-> typ]

readType(p, spec) ==
    LET p1 == assureType(p, spec.Name)
        pos == TypePos(p1, spec.Name)
        r == readTypeFields(spec.Type, [p1.Types[pos] EXCEPT !.Defined = TRUE])
    IN [err |-> r.err, pkg |-> SetType(p1, pos, r.typ)]

RECURSIVE readTypes(_, _, _)

\* readGenDecl's loop over the specs of a type declaration, from spec i
readTypes(p, specs, i) ==
    IF i > Len(specs) THEN [err |-> FALSE, pkg |-> p]
    ELSE LET r == readType(p, specs[i])
         IN IF r.err THEN r ELSE readTypes(r.pkg, specs, i + 1)

\* readFunc resolving the receiver type before it looks at imported (a mutation of readFunc)
readFuncAssureFirst(p, fun) ==
    LET f == toFunc(fun.Name, fun.Type)
    IN IF ~fun.Recv.nil
       THEN IF Len(fun.Recv.List) = 0 THEN [err |-> TRUE, pkg |-> p]
            ELSE LET b == baseTypeName(fun.Recv.List[1].Type)
                     p1 == assureType(p, b.name)
                     pos == TypePos(p1, b.name)
                 IN IF b.imported THEN [err |-> TRUE, pkg |-> p1]
                    ELSE [err |-> FALSE,
                          pkg |-> SetType(p1, pos, putMethod(p1.Types[pos], f))]
       ELSE [err |-> FALSE, pkg |-> putFunc(p, f)]

readFunc(p, fun) ==
    LET f == toFunc(fun.Name, fun.Type)
    IN IF ~fun.Recv.nil
       THEN IF Len(fun.Recv.List) = 0 THEN [err |-> TRUE, pkg |-> p]
            ELSE LET b == baseTypeName(fun.Recv.List[1].Type)
                 IN IF b.imported THEN [err |-> TRUE, pkg |-> p]
                    ELSE LET p1 == assureType(p, b.name)
                             pos == TypePos(p1, b.name)
                         IN [err |-> FALSE,
                             pkg |-> SetType(p1, pos, putMethod(p1.Types[pos], f))]
       ELSE [err |-> FALSE, pkg |-> putFunc(p, f)]

\* readGenDecl, by d.Tok
readGenDecl(p, d) ==
    CASE d.Tok = "IMPORT" -> readImports(p, d.Specs, 1)
      [] d.Tok = "VAR" -> readValue(p, d, FALSE)
      [] d.Tok = "CONST" -> readValue(p, d, TRUE)
      [] d.Tok = "TYPE" -> readTypes(p, d.Specs, 1)
      [] OTHER -> [err |-> FALSE, pkg |-> p]

\* one iteration of ScanFile's loop over file.Decls
readDecl(p, decl) ==
    CASE decl.k = "GenDecl" -> readGenDecl(p, decl)
      [] decl.k = "FuncDecl" -> readFunc(p, decl)
      [] OTHER -> [err |-> FALSE, pkg |-> p]

(***************************************************************************)
(* The declarations the scanner is run on.                                 *)
(***************************************************************************)
GenDecl(tok, specs) == [k |-> "GenDecl", Tok |-> tok, Specs |-> specs]

\* ast.ImportSpec: name is "" when s.Name is nil, path the text of s.Path.Value
ImportSpec(name, path) == [Name |-> name, Path |-> path]

\* ast.ValueSpec: typ is NilExpr when no type is written, values the number of
\* value expressions
ValueSpec(names, typ, values) == [Names |-> names, Type |-> typ, Values |-> values]

TypeSpec(name, typ) == [Name |-> name, Type |-> typ]

NoRecv == [nil |-> TRUE]

Recv(list) == [nil |-> FALSE, List |-> list]

FuncDecl(name, recv, typ) == [k |-> "FuncDecl", Name |-> name, Recv |-> recv, Type |-> typ]

NoDecl == [k |-> "none"]

IntT == Ident("int")

\* import "k"
DImport == GenDecl("IMPORT", <<ImportSpec("", <<"\"", "k", "\"">>)>>)

\* var VarFoo int
DVar == GenDecl("VAR", <<ValueSpec(<<"VarFoo">>, IntT, 0)>>)

\* const ( A int = 1; B; C = "x" )
DConst ==
    GenDecl("CONST", <<ValueSpec(<<"A">>, IntT, 1),
                       ValueSpec(<<"B">>, NilExpr, 0),
                       ValueSpec(<<"C">>, NilExpr, 1)>>)

\* the tag literal `k:"j" k:"k j"`
TagLit ==
    BasicLit("STRING",
             <<BQ, "k", ":", "\"", "j", "\"", " ",
               "k", ":", "\"", "k", " ", "j", "\"", BQ>>)

\* type T struct { a int `k:"j" k:"k j"`; a string; *E; b int }
DStructA ==
    GenDecl("TYPE",
            <<TypeSpec("T", StructType(<<AstField(<<"a">>, IntT, TagLit),
                                         Fld(<<"a">>, Ident("string")),
                                         Fld(<<>>, StarExpr(Ident("E"))),
                                         Fld(<<"b">>, IntT)>>))>>)

\* type T struct { E; b int }
DStructB ==
    GenDecl("TYPE",
            <<TypeSpec("T", StructType(<<Fld(<<>>, Ident("E")),
                                         Fld(<<"b">>, IntT)>>))>>)

\* type I interface { M(); J; J; M() error }
DInterface ==
    GenDecl("TYPE",
            <<TypeSpec("I", InterfaceType(<<Fld(<<"M">>, FuncType(<<>>, <<>>)),
                                            Fld(<<>>, Ident("J")),
                                            Fld(<<>>, Ident("J")),
                                            Fld(<<"M">>, FuncType(<<>>, <<Fld(<<>>, Ident("error"))>>))>>))>>)

\* type U int
DNamed == GenDecl("TYPE", <<TypeSpec("U", IntT)>>)

\* func (t *T) M(a, b int) error
DMethodM ==
    FuncDecl("M", Recv(<<Fld(<<"t">>, StarExpr(Ident("T")))>>),
             FuncType(<<Fld(<<"a", "b">>, IntT)>>, <<Fld(<<>>, Ident("error"))>>))

\* func (T) N()
DMethodN == FuncDecl("N", Recv(<<Fld(<<>>, Ident("T"))>>), FuncType(<<>>, <<>>))

\* func (x *q.T) M()
DMethodImported ==
    FuncDecl("M", Recv(<<Fld(<<"x">>, StarExpr(SelectorExpr(Ident("q"), "T")))>>),
             FuncType(<<>>, <<>>))

\* func F(a, b int) (T, error)
DFunc1 ==
    FuncDecl("F", NoRecv,
             FuncType(<<Fld(<<"a", "b">>, IntT)>>,
                      <<Fld(<<>>, Ident("T")), Fld(<<>>, Ident("error"))>>))

\* func F()
DFunc2 == FuncDecl("F", NoRecv, FuncType(<<>>, <<>>))

Decls ==
    {DImport, DVar, DConst, DStructA, DStructB, DInterface, DNamed,
     DMethodM, DMethodN, DMethodImported, DFunc1, DFunc2}

\* package names of the scanned files
PkgNames == {"p", "p_test"}

(***************************************************************************)
(* The inputs of the renderer: function types whose parameter and result   *)
(* lists hold up to MaxFields fields of 0 or 2 names.                      *)
(***************************************************************************)
RenderTypes == {IntT, StarExpr(Ident("T")), FuncType(<<Fld(<<>>, IntT)>>, <<>>)}

RenderFields == {Fld(names, t) : names \in {<<>>, <<"a", "b">>}, t \in RenderTypes}

RenderLists == UNION {[1..n -> RenderFields] : n \in 0..MaxFields}

RenderInputs == {FuncType(ps, rs) : ps \in RenderLists, rs \in RenderLists}

NotRendered == [done |-> FALSE]

(***************************************************************************)
(* The scanner as a state machine.  Parser.ScanFile is entered             *)
(* (ScanFileBegin), runs one iteration of its loop per declaration of the  *)
(* file (ScanDecl) and returns at the first error or at the end of the     *)
(* file (ScanFileReturn).  The declarations of the file are drawn as the   *)
(* loop reaches them.                                                      *)
(***************************************************************************)
ScanInit ==
    /\ pkg = NilPackage
    /\ pc = "idle"
    /\ entry = NilPackage
    /\ fname = ""
    /\ cur = NoDecl
    /\ err = FALSE
    /\ nfiles = 0
    /\ ndecls = 0

Init ==
    /\ ScanInit
    /\ x = NilExpr
    /\ out = NotRendered

\* ScanFile entered without the comparison of the names (a mutation of ScanFileBegin)
ScanFileBeginKeep(name) ==
    /\ pc = "idle"
    /\ nfiles < MaxFiles
    /\ pkg' = IF pkg = NilPackage THEN NewPackage(name) ELSE pkg
    /\ entry' = pkg
    /\ fname' = name
    /\ cur' = NoDecl
    /\ err' = FALSE
    /\ pc' = "scan"
    /\ nfiles' = nfiles + 1
    /\ UNCHANGED <<ndecls, x, out>>

ScanFileBegin(name) ==
    /\ pc = "idle"
    /\ nfiles < MaxFiles
    /\ pkg' = IF pkg = NilPackage \/ pkg.Name # name THEN NewPackage(name) ELSE pkg
    /\ entry' = pkg
    /\ fname' = name
    /\ cur' = NoDecl
    /\ err' = FALSE
    /\ pc' = "scan"
    /\ nfiles' = nfiles + 1
    /\ UNCHANGED <<ndecls, x, out>>

ScanDecl(d) ==
    /\ pc = "scan"
    /\ ndecls < MaxDecls
    /\ LET r == readDecl(pkg, d)
       IN /\ pkg' = r.pkg
          /\ err' = r.err
          /\ pc' = IF r.err THEN "idle" ELSE "scan"
    /\ cur' = d
    /\ ndecls' = ndecls + 1
    /\ UNCHANGED <<entry, fname, nfiles, x, out>>

ScanFileReturn ==
    /\ pc = "scan"
    /\ pc' = "idle"
    /\ err' = FALSE
    /\ UNCHANGED <<pkg, entry, fname, cur, nfiles, ndecls, x, out>>

Next ==
    \/ \E name \in PkgNames : ScanFileBegin(name)
    \/ \E d \in Decls : ScanDecl(d)
    \/ ScanFileReturn

Spec == Init /\ [][Next]_vars

(***************************************************************************)
(* The renderer on its own: typeString applied to one input.               *)
(***************************************************************************)
InitRender ==
    /\ ScanInit
    /\ x \in RenderInputs
    /\ out = NotRendered

Render ==
    /\ out = NotRendered
    /\ out' = [done |-> TRUE, s |-> typeString(x)]
    /\ UNCHANGED <<pkg, pc, entry, fname, cur, err, nfiles, ndecls, x>>

NextRender == Render

SpecRender == InitRender /\ [][NextRender]_vars

(***************************************************************************)
(* The tag parser on its own: parseTag applied to one tag text.  The texts *)
(* are every text of at most MaxTagLen bytes over TagBytes, alone or       *)
(* after one well-formed pair, and the texts of the examples.              *)
(***************************************************************************)
TagBytes == {"k", ":", "\"", " ", "\t", "\\"}

Texts(bytes, n) == UNION {[1..m -> bytes] : m \in 0..n}

\* k:"j k"
TagPair == <<"k", ":", "\"", "j", " ", "k", "\"">>

\* broken
TagBroken == <<"b", "r", "o", "k", "e", "n">>

\* json:"name,omitempty" xml:"Name"
TagJsonXml ==
    <<"j", "s", "o", "n", ":", "\"", "n", "a", "m", "e", ",",
      "o", "m", "i", "t", "e", "m", "p", "t", "y", "\"", " ",
      "x", "m", "l", ":", "\"", "N", "a", "m", "e", "\"">>

TagInputs ==
    Texts(TagBytes, MaxTagLen)
        \cup {TagPair \o t : t \in Texts(TagBytes, MaxTagLen)}
        \cup {TagBroken, TagJsonXml}

InitTag ==
    /\ ScanInit
    /\ x \in TagInputs
    /\ out = NotRendered

ParseTag ==
    /\ out = NotRendered
    /\ out' = [done |-> TRUE, tag |-> parseTag(x)]
    /\ UNCHANGED <<pkg, pc, entry, fname, cur, err, nfiles, ndecls, x>>

NextTag == ParseTag

SpecTag == InitTag /\ [][NextTag]_vars

(***************************************************************************)
(* Build constraints (go/build/constraint as src/read.go calls it).  The   *)
(* text of a comment is a sequence of tokens: the markers "//go:build",    *)
(* "//" and "+build", the blank " ", the words of BuildWords and the       *)
(* operators "&&", "||", "!" and ",".  Parenthesised expressions are in no *)
(* text of the model.                                                      *)
(***************************************************************************)
BuildWords == {"amd64", "linux"}

TagExpr(t) == [k |-> "Tag", Tag |-> t]

NotExpr(e) == [k |-> "Not", X |-> e]

AndExpr(a, b) == [k |-> "And", X |-> a, Y |-> b]

OrExpr(a, b) == [k |-> "Or", X |-> a, Y |-> b]

\* the nil constraint.Expr
NilConstraint == [k |-> "nil"]

RECURSIVE Eval(_, _)

\* Expr.Eval(func(tag) bool { return tags[tag] }), tags being the set of the
\* keys of the map that are true
Eval(e, tags) ==
    CASE e.k = "Tag" -> e.Tag \in tags
      [] e.k = "Not" -> ~Eval(e.X, tags)
      [] e.k = "And" -> Eval(e.X, tags) /\ Eval(e.Y, tags)
      [] e.k = "Or" -> Eval(e.X, tags) \/ Eval(e.Y, tags)

RECURSIVE splitOn(_, _, _)

\* strings.Split(ts, sep) on tokens; acc is the piece being read
splitOn(ts, sep, acc) ==
    IF Len(ts) = 0 THEN <<acc>>
    ELSE IF ts[1] = sep THEN <<acc>> \o splitOn(Tail(ts), sep, <<>>)
    ELSE splitOn(Tail(ts), sep, Append(acc, ts[1]))

\* strings.Fields(ts): the non-empty pieces between blanks
Fields(ts) ==
    LET nonEmpty(piece) == Len(piece) > 0
    IN SelectSeq(splitOn(ts, " ", <<>>), nonEmpty)

isValidTag(lit) == Len(lit) = 1 /\ lit[1] \in BuildWords

\* one comma-separated term of a +build line
plusBuildLit(lit) ==
    IF (Len(lit) >= 2 /\ lit[1] = "!" /\ lit[2] = "!") \/ lit = <<"!">>
    THEN TagExpr("ignore")
    ELSE LET neg == Len(lit) >= 1 /\ lit[1] = "!"
             word == IF neg THEN Tail(lit) ELSE lit
             z == IF isValidTag(word) THEN TagExpr(word[1]) ELSE TagExpr("ignore")
         IN IF neg THEN NotExpr(z) ELSE z

RECURSIVE plusBuildClause(_)

\* the terms of one blank-separated option, joined with and
plusBuildClause(lits) ==
    IF Len(lits) = 1 THEN plusBuildLit(lits[1])
    ELSE AndExpr(plusBuildClause(SubSeq(lits, 1, Len(lits) - 1)),
                 plusBuildLit(lits[Len(lits)]))

RECURSIVE plusBuildSwapped(_)

\* a mutation of plusBuildOptions: the options are joined with and
plusBuildSwapped(clauses) ==
    IF Len(clauses) = 1 THEN plusBuildClause(splitOn(clauses[1], ",", <<>>))
    ELSE AndExpr(plusBuildSwapped(SubSeq(clauses, 1, Len(clauses) - 1)),
                 plusBuildClause(splitOn(clauses[Len(clauses)], ",", <<>>)))

RECURSIVE plusBuildOptions(_)

\* the options of a +build line, joined with or
plusBuildOptions(clauses) ==
    IF Len(clauses) = 1 THEN plusBuildClause(splitOn(clauses[1], ",", <<>>))
    ELSE OrExpr(plusBuildOptions(SubSeq(clauses, 1, Len(clauses) - 1)),
                plusBuildClause(splitOn(clauses[Len(clauses)], ",", <<>>)))

\* constraint.parsePlusBuildExpr on the text after "+build"
parsePlusBuildExpr(ts) ==
    IF Len(Fields(ts)) = 0 THEN TagExpr("ignore") ELSE plusBuildOptions(Fields(ts))

RECURSIVE parseNot(_)

\* the not level of constraint.parseExpr: [err, e]
parseNot(ts) ==
    IF Len(ts) = 1 /\ ts[1] \in BuildWords THEN [err |-> FALSE, e |-> TagExpr(ts[1])]
    ELSE IF Len(ts) >= 2 /\ ts[1] = "!" /\ ts[2] # "!"
         THEN LET r == parseNot(Tail(ts))
              IN [err |-> r.err, e |-> NotExpr(r.e)]
         ELSE [err |-> TRUE, e |-> NilConstraint]

RECURSIVE parseAnd(_)

\* the and level, on the operands between "&&"
parseAnd(parts) ==
    LET last == parseNot(parts[Len(parts)])
    IN IF Len(parts) = 1 THEN last
       ELSE LET front == parseAnd(SubSeq(parts, 1, Len(parts) - 1))
            IN [err |-> front.err \/ last.err, e |-> AndExpr(front.e, last.e)]

RECURSIVE parseOr(_)

\* the or level, on the operands between "||"
parseOr(parts) ==
    LET last == parseAnd(splitOn(parts[Len(parts)], "&&", <<>>))
    IN IF Len(parts) = 1 THEN last
       ELSE LET front == parseOr(SubSeq(parts, 1, Len(parts) - 1))
            IN [err |-> front.err \/ last.err, e |-> OrExpr(front.e, last.e)]

\* constraint.parseExpr on the text after "//go:build": [err, e]
parseExpr(ts) ==
    LET notBlank(t) == t # " "
        r == parseOr(splitOn(SelectSeq(ts, notBlank), "||", <<>>))
    IN IF r.err THEN [err |-> TRUE, e |-> NilConstraint] ELSE r

IsGoBuild(text) ==
    /\ Len(text) >= 1
    /\ text[1] = "//go:build"
    /\ (Len(text) = 1 \/ text[2] = " ")

IsPlusBuild(text) ==
    /\ Len(text) >= 1
    /\ text[1] = "//"
    /\ Len(Fields(Tail(text))) >= 1
    /\ Fields(Tail(text))[1] = <<"+build">>

\* the text of a +build comment after its marker
afterPlusBuild(text) ==
    LET i == CHOOSE n \in 1..Len(text) :
                 text[n] = "+build" /\ \A m \in 1..(n - 1) : text[m] # "+build"
    IN SubSeq(text, i + 1, Len(text))

\* constraint.Parse: [err, e]
Parse(text) ==
    IF IsGoBuild(text) THEN parseExpr(Tail(text))
    ELSE IF IsPlusBuild(text)
         THEN [err |-> FALSE, e |-> parsePlusBuildExpr(afterPlusBuild(text))]
         ELSE [err |-> TRUE, e |-> NilConstraint]

(***************************************************************************)
(* Files as readDir sees them: *ast.File with its package name, its        *)
(* comment groups (ordered by position, as the parser leaves them), the    *)
(* position of its package clause and its declarations.                    *)
(***************************************************************************)
CommentGroup(pos, list) == [Pos |-> pos, List |-> list]

AstFile(name, comments, package, decls) ==
    [Name |-> name, Comments |-> comments, Package |-> package, Decls |-> decls]

RECURSIVE joinExprListWithOrExpr(_)

joinExprListWithOrExpr(list) ==
    IF Len(list) = 1 THEN list[1]
    ELSE OrExpr(list[1], joinExprListWithOrExpr(Tail(list)))

\* a mutation of groupsBefore: the package clause stops nothing
groupsAll(groups, package) == groups

RECURSIVE groupsBefore(_, _)

\* the groups the outer loop of extractBuildDirectives enters before its break
groupsBefore(groups, package) ==
    IF Len(groups) = 0 \/ groups[1].Pos >= package THEN <<>>
    ELSE <<groups[1]>> \o groupsBefore(Tail(groups), package)

RECURSIVE commentsOf(_)

\* the comments of the groups, in the order the two loops visit them
commentsOf(groups) ==
    IF Len(groups) = 0 THEN <<>> ELSE groups[1].List \o commentsOf(Tail(groups))

RECURSIVE extractLoop(_, _)

\* the body of the loops of extractBuildDirectives and its return: [err, e]
extractLoop(comments, plusBuilds) ==
    IF Len(comments) = 0
    THEN IF Len(plusBuilds) = 0 THEN [err |-> FALSE, e |-> NilConstraint]
         ELSE [err |-> FALSE, e |-> joinExprListWithOrExpr(plusBuilds)]
    ELSE LET c == comments[1]
         IN IF IsGoBuild(c) THEN Parse(c)
            ELSE IF ~IsPlusBuild(c) THEN extractLoop(Tail(comments), plusBuilds)
            ELSE LET r == Parse(c)
                 IN IF r.err THEN [err |-> TRUE, e |-> NilConstraint]
                    ELSE extractLoop(Tail(comments), Append(plusBuilds, r.e))

extractBuildDirectives(file) ==
    extractLoop(commentsOf(groupsBefore(file.Comments, file.Package)), <<>>)

\* a mutation of filterFile: no file is deleted
filterFileKeep(file, tags) ==
    IF extractBuildDirectives(file).err THEN "error" ELSE "keep"

\* what the inner loop of readDir does with a file, r being what
\* extractBuildDirectives returned: "error" (return err), "keep" (continue,
\* or Eval gives true) or "delete" (delete(pkg.Files, fname))
filterVerdict(r, tags) ==
    IF r.err THEN "error"
    ELSE IF r.e = NilConstraint THEN "keep"
    ELSE IF ~Eval(r.e, tags) THEN "delete"
    ELSE "keep"

\* the body of the inner loop of readDir on one file
filterFile(file, tags) == filterVerdict(extractBuildDirectives(file), tags)

(***************************************************************************)
(* The build filter on its own: one file, one tag set.                     *)
(***************************************************************************)
LineText == <<"//", " ", "text">>

\* // +build amd64 linux
LinePlusSpace == <<"//", " ", "+build", " ", "amd64", " ", "linux">>

\* // +build amd64,linux
LinePlusComma == <<"//", " ", "+build", " ", "amd64", ",", "linux">>

\* // +build !linux
LinePlusNot == <<"//", " ", "+build", " ", "!", "linux">>

\* //go:build amd64 && linux
LineGoAnd == <<"//go:build", " ", "amd64", " ", "&&", " ", "linux">>

\* //go:build linux || !amd64
LineGoOr == <<"//go:build", " ", "linux", " ", "||", " ", "!", "amd64">>

\* //go:build &&
LineGoBad == <<"//go:build", " ", "&&">>

BuildLines ==
    {LineText, LinePlusSpace, LinePlusComma, LinePlusNot, LineGoAnd, LineGoOr, LineGoBad}

GroupLists ==
    {<<c>> : c \in BuildLines}
        \cup {<<LineText, LinePlusSpace>>, <<LinePlusNot, LinePlusComma>>,
              <<LinePlusNot, LineGoAnd>>, <<LineGoOr, LinePlusSpace>>}

\* the n-th group of a file starts at position 10 * n
groupsAt(lists) == [n \in 1..Len(lists) |-> CommentGroup(10 * n, lists[n])]

\* a file with the given comments, before of which precede the package clause
BuildFile(lists, before) == AstFile("p", groupsAt(lists), 10 * before + 5, <<>>)

BuildFiles ==
    {BuildFile(lists, before) :
        lists \in UNION {[1..n -> GroupLists] : n \in 0..MaxGroups},
        before \in 0..MaxGroups}

TagSets == {{}, {"amd64"}, {"linux"}, {"amd64", "linux"}}

NotFiltered == [done |-> FALSE]

InitBuild ==
    /\ ScanInit
    /\ x \in [file : BuildFiles, tags : TagSets]
    /\ out = NotFiltered

FilterFile ==
    /\ out = NotFiltered
    /\ out' = [done |-> TRUE,
               expr |-> extractBuildDirectives(x.file),
               verdict |-> filterFile(x.file, x.tags)]
    /\ UNCHANGED <<pkg, pc, entry, fname, cur, err, nfiles, ndecls, x>>

NextBuild == FilterFile

SpecBuild == InitBuild /\ [][NextBuild]_vars

(***************************************************************************)
(* The order of strings (Go compares them byte by byte) and sorting.       *)
(* Bytes(s) lists the bytes of the identifiers and file names of the       *)
(* model.  A range over a map visits its keys in an order the run-time     *)
(* picks: order is a sequence that holds every possible key once, and the  *)
(* loop visits the keys of the map as they come in it.                     *)
(***************************************************************************)
Bytes(s) ==
    CASE s = "A" -> <<65>>
      [] s = "B" -> <<66>>
      [] s = "C" -> <<67>>
      [] s = "E" -> <<69>>
      [] s = "F" -> <<70>>
      [] s = "G" -> <<71>>
      [] s = "I" -> <<73>>
      [] s = "T" -> <<84>>
      [] s = "U" -> <<85>>
      [] s = "VarFoo" -> <<86, 97, 114, 70, 111, 111>>
      [] s = "a.go" -> <<97, 46, 103, 111>>
      [] s = "a_test.go" -> <<97, 95, 116, 101, 115, 116, 46, 103, 111>>
      [] s = "b.go" -> <<98, 46, 103, 111>>

RECURSIVE lessBytes(_, _)

lessBytes(a, b) ==
    IF Len(b) = 0 THEN FALSE
    ELSE IF Len(a) = 0 THEN TRUE
    ELSE IF a[1] # b[1] THEN a[1] < b[1]
    ELSE lessBytes(Tail(a), Tail(b))

\* s < t of Go strings
Less(s, t) == lessBytes(Bytes(s), Bytes(t))

RECURSIVE insertSorted(_, _)

insertSorted(sorted, s) ==
    IF Len(sorted) = 0 THEN <<s>>
    ELSE IF Less(s, sorted[1]) THEN <<s>> \o sorted
    ELSE <<sorted[1]>> \o insertSorted(Tail(sorted), s)

RECURSIVE sortStrings(_)

\* sort.Strings, and sort.Slice with the comparison names[i] < names[j]
sortStrings(names) ==
    IF Len(names) = 0 THEN <<>>
    ELSE insertSorted(sortStrings(SubSeq(names, 1, Len(names) - 1)), names[Len(names)])

\* for k := range m { names = append(names, k) }
rangeKeys(m, order) ==
    LET present(k) == k \in DOMAIN m
    IN SelectSeq(order, present)

\* a mutation of sortedNames: the names are left as the range gave them
sortedNamesUnsorted(m, order) == rangeKeys(m, order)

sortedNames(m, order) == sortStrings(rangeKeys(m, order))

\* a mutation of sortFileNames: the names are left as the range gave them
sortFileNamesUnsorted(src, order) == rangeKeys(src, order)

sortFileNames(src, order) == sortStrings(rangeKeys(src, order))

\* Package.ValueNames, FuncNames, TypeNames
ValueNames(p, order) == sortedNames(p.valIdx, order)

FuncNames(p, order) == sortedNames(p.funIdx, order)

TypeNames(p, order) == sortedNames(p.typIdx, order)

\* the sequences that hold every element of S once
Orders(S) ==
    {o \in [1..Cardinality(S) -> S] : \A i, j \in 1..Cardinality(S) : o[i] = o[j] => i = j}

(***************************************************************************)
(* readDir.  pkgMap is what parser.ParseDir returns: for every package     *)
(* name of the directory its *ast.Package, Files keyed by file name.       *)
(* pkgOrder and fileOrder are the orders in which the ranges over pkgMap   *)
(* (toPackages) and over pkg.Files (sortFileNames) visit the keys.         *)
(***************************************************************************)
AstPackage(name, files) == [Name |-> name, Files |-> files]

RECURSIVE scanDecls(_, _)

\* the end of an iteration of ScanFile's loop, r being what the reader returned
scanDeclsNext(r, decls) == IF r.err THEN r ELSE scanDecls(r.pkg, Tail(decls))

\* the loop of ScanFile over file.Decls: [err, pkg]
scanDecls(p, decls) ==
    IF Len(decls) = 0 THEN [err |-> FALSE, pkg |-> p]
    ELSE scanDeclsNext(readDecl(p, decls[1]), decls)

\* Parser.ScanFile as one call: [err, pkg], pkg being Parser.Package after it
ScanFile(p, file) ==
    scanDecls(IF p = NilPackage \/ p.Name # file.Name THEN NewPackage(file.Name) ELSE p,
              file.Decls)

RECURSIVE scanFiles(_, _, _)

\* the end of an iteration of the last loop of readDir, r being what ScanFile
\* returned
scanFilesNext(r, names, files) ==
    IF r.err THEN r ELSE scanFiles(r.pkg, Tail(names), files)

\* the last loop of readDir: ScanFile on the files named, in order
scanFiles(p, names, files) ==
    IF Len(names) = 0 THEN [err |-> FALSE, pkg |-> p]
    ELSE scanFilesNext(ScanFile(p, files[names[1]]), names, files)

toPackages(pkgMap, pkgOrder) ==
    LET names == rangeKeys(pkgMap, pkgOrder)
    IN [i \in 1..Len(names) |-> pkgMap[names[i]]]

\* a mutation of orderPair: no swap
orderPairAsFound(pkg0, testPkg) == <<pkg0, testPkg>>

\* if len(pkg.Name) > len(testPkg.Name) { pkg, testPkg = testPkg, pkg }
orderPair(pkg0, testPkg) ==
    IF Len(pkg0.Name) > Len(testPkg.Name) THEN <<testPkg, pkg0>> ELSE <<pkg0, testPkg>>

\* pkg.Files after the inner loop of readDir
filterFiles(files, tags) ==
    [n \in {f \in DOMAIN files : filterFile(files[f], tags) = "keep"} |-> files[n]]

\* pkgMap after the first loop of readDir, files giving pkg.Files after the
\* inner loop
keepPackages(pkgMap, files) ==
    [n \in {q \in DOMAIN pkgMap : DOMAIN files[q] # {}} |->
        AstPackage(pkgMap[n].Name, files[n])]

filterPackages(pkgMap, tags) ==
    keepPackages(pkgMap, [q \in DOMAIN pkgMap |-> filterFiles(pkgMap[q].Files, tags)])

DirError == [err |-> TRUE, pkg |-> NilPackage, scanned |-> <<>>]

\* the return of readDir, r being what the last loop gave on the files names
readDirResult(r, names) ==
    IF r.err THEN DirError ELSE [err |-> FALSE, pkg |-> r.pkg, scanned |-> names]

\* the last loop of readDir on the files of the package, names being
\* sortFileNames(pkg.Files)
readDirNames(names, files) == readDirResult(scanFiles(NilPackage, names, files), names)

\* readDir from `p := &Parser{}` on, chosen being pkg
readDirScan(chosen, fileOrder) ==
    readDirNames(sortFileNames(chosen.Files, fileOrder), chosen.Files)

\* readDir on two packages, pair being pkg and testPkg after the swap
readDirPair(pair, testPackage, fileOrder) ==
    IF pair[1].Name \o "_test" # pair[2].Name THEN DirError
    ELSE readDirScan(pair[IF testPackage THEN 2 ELSE 1], fileOrder)

\* readDir after its first loop, pkgs being toPackages(pkgMap)
readDirKept(pkgs, testPackage, fileOrder) ==
    IF Len(pkgs) = 0 THEN [err |-> FALSE, pkg |-> NewPackage(""), scanned |-> <<>>]
    ELSE IF Len(pkgs) > 2 THEN DirError
    ELSE IF Len(pkgs) = 2
         THEN readDirPair(orderPair(pkgs[1], pkgs[2]), testPackage, fileOrder)
         ELSE readDirScan(pkgs[1], fileOrder)

\* readDir: [err, pkg, scanned], scanned being the names of the files handed
\* to ScanFile, in order
readDir(pkgMap, testPackage, tags, pkgOrder, fileOrder) ==
    IF \E q \in DOMAIN pkgMap : \E f \in DOMAIN pkgMap[q].Files :
           filterFile(pkgMap[q].Files[f], tags) = "error"
    THEN DirError
    ELSE readDirKept(toPackages(filterPackages(pkgMap, tags), pkgOrder),
                     testPackage, fileOrder)

(***************************************************************************)
(* readDir on its own: one directory, one call.  A directory places each   *)
(* of three files in one of three packages, or leaves it out; a file has   *)
(* no comment or one directive before its package clause, and the          *)
(* declarations that go with its name.                                     *)
(***************************************************************************)
DirFileNames == {"a.go", "a_test.go", "b.go"}

DirPkgNames == {"p", "p_test", "q"}

\* func G()
DFuncG == FuncDecl("G", NoRecv, FuncType(<<>>, <<>>))

\* func A()
DFuncA == FuncDecl("A", NoRecv, FuncType(<<>>, <<>>))

\* func B()
DFuncB == FuncDecl("B", NoRecv, FuncType(<<>>, <<>>))

FileDecls(f) ==
    CASE f = "a.go" -> <<DFuncG, DFuncB, DMethodN>>
      [] f = "a_test.go" -> <<DFunc2, DMethodM>>
      [] f = "b.go" -> <<DFuncA, DVar>>

DirHeaders == {<<>>, <<<<LineGoAnd>>>>, <<<<LinePlusNot>>>>, <<<<LineGoBad>>>>}

Absent == [absent |-> TRUE]

Placed(name, header) == [absent |-> FALSE, pkg |-> name, header |-> header]

DirLayouts ==
    [DirFileNames -> {Absent} \cup {Placed(n, h) : n \in DirPkgNames, h \in DirHeaders}]

\* what parser.ParseDir returns for the directory laid out as layout
ParseDir(layout) ==
    LET present == {f \in DirFileNames : ~layout[f].absent}
        filesOf(n) == {f \in present : layout[f].pkg = n}
        file(f) == AstFile(layout[f].pkg, groupsAt(layout[f].header),
                           10 * Len(layout[f].header) + 5, FileDecls(f))
    IN [n \in {layout[f].pkg : f \in present} |->
           AstPackage(n, [f \in filesOf(n) |-> file(f)])]

DirTagSets == {{"amd64"}, {"amd64", "linux"}}

NotRead == [done |-> FALSE]

InitDir ==
    /\ ScanInit
    /\ x \in [dir : {ParseDir(l) : l \in DirLayouts},
               testPackage : BOOLEAN,
               tags : DirTagSets]
    /\ out = NotRead

ReadDir ==
    /\ out = NotRead
    /\ \E pkgOrder \in Orders(DirPkgNames), fileOrder \in Orders(DirFileNames) :
          out' = [done |-> TRUE,
                  res |-> readDir(x.dir, x.testPackage, x.tags, pkgOrder, fileOrder)]
    /\ UNCHANGED <<pkg, pc, entry, fname, cur, err, nfiles, ndecls, x>>

NextDir == ReadDir

SpecDir == InitDir /\ [][NextDir]_vars

(***************************************************************************)
(* Vocabulary of the properties.                                           *)
(***************************************************************************)
IsPrefix(a, b) == Len(a) <= Len(b) /\ SubSeq(b, 1, Len(a)) = a

\* the last n elements of seq
LastN(seq, n) == SubSeq(seq, Len(seq) - n + 1, Len(seq))

NoDuplicates(seq) == \A i, j \in 1..Len(seq) : seq[i] = seq[j] => i = j

\* the step just taken was an iteration of ScanFile's loop (on declaration cur')
ScanDeclStep == ndecls' = ndecls + 1

RECURSIVE StripStars(_)

\* the expression under the pointer indirections of e
StripStars(e) == IF e.k = "StarExpr" THEN StripStars(e.X) ELSE e

\* d is a var or const declaration
IsValueDecl(d) == d.k = "GenDecl" /\ d.Tok \in {"VAR", "CONST"}

RECURSIVE SpecNames(_, _)

\* the names a var or const declaration declares, each with the index of its
\* spec, in declaration order, from spec i
SpecNames(specs, i) ==
    IF i > Len(specs) THEN <<>>
    ELSE [j \in 1..Len(specs[i].Names) |-> [Name |-> specs[i].Names[j], Spec |-> i]]
         \o SpecNames(specs, i + 1)

\* d is a type declaration of one struct type
IsStructDecl(d) ==
    d.k = "GenDecl" /\ d.Tok = "TYPE" /\ Len(d.Specs) = 1
    /\ d.Specs[1].Type.k = "StructType"

\* d is a function declaration whose receiver is a qualified name behind any
\* number of pointers
HasQualifiedRecv(d) ==
    /\ d.k = "FuncDecl"
    /\ ~d.Recv.nil
    /\ Len(d.Recv.List) > 0
    /\ StripStars(d.Recv.List[1].Type).k = "SelectorExpr"
    /\ StripStars(d.Recv.List[1].Type).X.k = "Ident"

\* d is a method declaration on a type of the package, named by RecvName(d)
HasLocalRecv(d) ==
    /\ d.k = "FuncDecl"
    /\ ~d.Recv.nil
    /\ Len(d.Recv.List) > 0
    /\ StripStars(d.Recv.List[1].Type).k = "Ident"

RecvName(d) == StripStars(d.Recv.List[1].Type).Name

\* the positions of the entries of seq named n
Named(seq, n) == {i \in 1..Len(seq) : seq[i].Name = n}

(***************************************************************************)
(* C1.  For every var or const spec that carries an explicit type          *)
(* expression, the scan of the declaration records one Value per declared  *)
(* name whose Type is the rendered signature of that type expression.      *)
(* Stated on the state after the declaration was scanned: the Values it    *)
(* appended are the last ones of the package.                              *)
(***************************************************************************)
C1_ExplicitTypeRecorded ==
    IsValueDecl(cur) =>
        LET names == SpecNames(cur.Specs, 1)
            vals == LastN(pkg.Values, Len(names))
        IN /\ Len(pkg.Values) >= Len(names)
           /\ \A i \in 1..Len(names) :
                cur.Specs[names[i].Spec].Type # NilExpr =>
                    /\ vals[i].Name = names[i].Name
                    /\ vals[i].Type = typeString(cur.Specs[names[i].Spec].Type)

(***************************************************************************)
(* C2.  The const block  const ( A int = 1; B; C = "x" )  yields the       *)
(* Values A of Type "int", B of Type "int" (inherited from A) and C of     *)
(* Type "", all three with IsConst true.                                   *)
(***************************************************************************)
C2_ConstBlockInherits ==
    cur = DConst =>
        /\ Len(pkg.Values) >= 3
        /\ LastN(pkg.Values, 3) =
              <<[Name |-> "A", Type |-> "int", IsConst |-> TRUE],
                [Name |-> "B", Type |-> "int", IsConst |-> TRUE],
                [Name |-> "C", Type |-> "", IsConst |-> TRUE]>>

(***************************************************************************)
(* C3.  In every name-keyed collection filled by putFunc, putType,         *)
(* putField, putMethod or putTagValue, every key of the index maps to a    *)
(* position of the backing sequence whose entry has that name and is the   *)
(* last entry of that name, every entry's name is a key, and the lookup    *)
(* by name returns the last entry put under the name; a step of the scan   *)
(* only appends to the backing sequences of the package, the entries       *)
(* already there staying in place.                                         *)
(***************************************************************************)
IndexPointsAtLast(seq, idx) ==
    /\ \A key \in DOMAIN idx :
          /\ idx[key] \in 0..(Len(seq) - 1)
          /\ seq[idx[key] + 1].Name = key
          /\ \A j \in 1..Len(seq) : seq[j].Name = key => j <= idx[key] + 1
    /\ \A j \in 1..Len(seq) : seq[j].Name \in DOMAIN idx

LookupIsLast(seq, idx) ==
    \A j \in 1..Len(seq) :
        LET r == Lookup(seq, idx, seq[j].Name)
            last == CHOOSE i \in Named(seq, seq[j].Name) :
                        \A i2 \in Named(seq, seq[j].Name) : i2 <= i
        IN r.ok /\ r.val = seq[last]

C3_IndexState(p) ==
    p # NilPackage =>
        /\ IndexPointsAtLast(p.Funcs, p.funIdx)
        /\ LookupIsLast(p.Funcs, p.funIdx)
        /\ IndexPointsAtLast(p.Types, p.typIdx)
        /\ LookupIsLast(p.Types, p.typIdx)
        /\ \A t \in 1..Len(p.Types) :
              LET typ == p.Types[t]
              IN /\ IndexPointsAtLast(typ.Fields, typ.fieldIdx)
                 /\ LookupIsLast(typ.Fields, typ.fieldIdx)
                 /\ IndexPointsAtLast(typ.Methods, typ.methodIdx)
                 /\ LookupIsLast(typ.Methods, typ.methodIdx)
                 /\ \A f \in 1..Len(typ.Fields) :
                       IndexPointsAtLast(typ.Fields[f].Tag.Values,
                                         typ.Fields[f].Tag.valueIdx)

C3_OnlyAppends ==
    ScanDeclStep =>
        /\ IsPrefix(pkg.Funcs, pkg'.Funcs)
        /\ Len(pkg.Types) <= Len(pkg'.Types)
        /\ \A t \in 1..Len(pkg.Types) :
              /\ pkg'.Types[t].Name = pkg.Types[t].Name
              /\ IsPrefix(pkg.Types[t].Fields, pkg'.Types[t].Fields)
              /\ IsPrefix(pkg.Types[t].Methods, pkg'.Types[t].Methods)

\* C3: after every step the indexes point at the last entry of each name and the
\* lookups return it, and a scan step only appends to the backing sequences
C3_IndexInvariant == [][C3_IndexState(pkg') /\ C3_OnlyAppends]_vars

\* func F was declared twice: both entries are kept and the index holds the second
C3_Witness ==
    /\ pkg # NilPackage
    /\ Len(pkg.Funcs) = 2
    /\ pkg.Funcs[1].Name = "F"
    /\ pkg.Funcs[2].Name = "F"
    /\ pkg.Funcs[1] # pkg.Funcs[2]
    /\ PkgFunc(pkg, "F").val = pkg.Funcs[2]

(***************************************************************************)
(* C4.  Package.Types holds at most one entry of a name.  A method         *)
(* declaration with receiver base name N creates the entry of N as a       *)
(* placeholder (Defined false) when there is none and otherwise leaves     *)
(* all entries in place; it appends the method to the Methods of the       *)
(* entry of N.  A type declaration of N keeps the entry of N where it is   *)
(* when there is one, sets its Defined, and keeps its Methods, Fields and  *)
(* Embeds as a prefix of the new ones.  Hence every method declared        *)
(* before or after the type declaration is in the one entry of N.          *)
(***************************************************************************)
C4_MethodStep ==
    (ScanDeclStep /\ HasLocalRecv(cur')) =>
        LET n == RecvName(cur')
            f == toFunc(cur'.Name, cur'.Type)
        IN IF Named(pkg.Types, n) = {}
           THEN pkg'.Types = Append(pkg.Types, putMethod(NewType(n), f))
           ELSE /\ Len(pkg'.Types) = Len(pkg.Types)
                /\ \A t \in 1..Len(pkg.Types) :
                      IF pkg.Types[t].Name = n
                      THEN /\ pkg'.Types[t].Methods = Append(pkg.Types[t].Methods, f)
                           /\ pkg'.Types[t].Defined = pkg.Types[t].Defined
                           /\ pkg'.Types[t].Fields = pkg.Types[t].Fields
                           /\ pkg'.Types[t].Embeds = pkg.Types[t].Embeds
                      ELSE pkg'.Types[t] = pkg.Types[t]

C4_TypeDeclStep ==
    (ScanDeclStep /\ cur'.k = "GenDecl" /\ cur'.Tok = "TYPE") =>
        \A s \in 1..Len(cur'.Specs) :
            LET n == cur'.Specs[s].Name
            IN /\ Named(pkg'.Types, n) # {}
               /\ \A t \in Named(pkg.Types, n) :
                     /\ pkg'.Types[t].Name = n
                     /\ IsPrefix(pkg.Types[t].Methods, pkg'.Types[t].Methods)
                     /\ IsPrefix(pkg.Types[t].Fields, pkg'.Types[t].Fields)
                     /\ IsPrefix(pkg.Types[t].Embeds, pkg'.Types[t].Embeds)
               /\ \A t \in Named(pkg'.Types, n) : pkg'.Types[t].Defined

C4_OneEntryPerName ==
    pkg # NilPackage =>
        \A i, j \in 1..Len(pkg.Types) : pkg.Types[i].Name = pkg.Types[j].Name => i = j

\* C4: one entry per type name, enriched in place by method and type declarations
C4_OneTypePerName ==
    [][C4_OneEntryPerName' /\ C4_MethodStep /\ C4_TypeDeclStep]_vars

\* method M on T was scanned before the declaration of T, which has just been
\* scanned: one entry, defined, holding the method and the fields
C4_Witness ==
    /\ cur = DStructA
    /\ Len(pkg.Types) = 1
    /\ pkg.Types[1].Name = "T"
    /\ pkg.Types[1].Defined
    /\ Len(pkg.Types[1].Methods) = 1
    /\ pkg.Types[1].Methods[1].Name = "M"
    /\ Len(pkg.Types[1].Fields) > 0

(***************************************************************************)
(* C5.  Scanning a function declaration whose receiver type is a           *)
(* qualified name, possibly behind pointers, returns an error, ends the    *)
(* ScanFile call at that declaration and leaves the Package as it was      *)
(* before the declaration.                                                 *)
(***************************************************************************)
C5_QualifiedReceiverRejected ==
    [][(ScanDeclStep /\ HasQualifiedRecv(cur')) =>
          /\ err'
          /\ pc' = "idle"
          /\ pkg' = pkg]_vars

\* the rejected declaration came after others, whose entries are still there
C5_Witness ==
    /\ cur = DMethodImported
    /\ err
    /\ pc = "idle"
    /\ Len(pkg.Funcs) > 0

(***************************************************************************)
(* C6.  ScanFile on a Parser whose Package has the file's package name     *)
(* keeps every existing import, value, func and type entry unchanged and   *)
(* appends the file's entries after them; on a Parser without a Package,   *)
(* or with one of another name, it starts from a fresh Package of the      *)
(* file's name.  entry is Parser.Package at the entry of the call.         *)
(***************************************************************************)
SamePackage == entry # NilPackage /\ entry.Name = fname

C6_FreshPackage ==
    /\ pkg.Name = fname
    /\ (cur = NoDecl /\ ~SamePackage) => pkg = NewPackage(fname)
    /\ (cur = NoDecl /\ SamePackage) => pkg = entry

\* C6 as first stated: a same-named Package keeps its imports, values, funcs and
\* types unchanged as a prefix; otherwise the Package is fresh
C6_ExistingEntriesUnchanged ==
    nfiles > 0 =>
        /\ C6_FreshPackage
        /\ SamePackage =>
              /\ IsPrefix(entry.Imports, pkg.Imports)
              /\ IsPrefix(entry.Values, pkg.Values)
              /\ IsPrefix(entry.Funcs, pkg.Funcs)
              /\ IsPrefix(entry.Types, pkg.Types)

\* C6 as amended: imports, values and funcs are kept unchanged as a prefix; an
\* existing type entry keeps its position and name, what it held stays a prefix
\* of what it holds, and its flags are only ever set; otherwise the Package is fresh
C6_ExistingEntriesKept ==
    nfiles > 0 =>
        /\ C6_FreshPackage
        /\ SamePackage =>
              /\ IsPrefix(entry.Imports, pkg.Imports)
              /\ IsPrefix(entry.Values, pkg.Values)
              /\ IsPrefix(entry.Funcs, pkg.Funcs)
              /\ Len(entry.Types) <= Len(pkg.Types)
              /\ \A t \in 1..Len(entry.Types) :
                    /\ pkg.Types[t].Name = entry.Types[t].Name
                    /\ IsPrefix(entry.Types[t].Fields, pkg.Types[t].Fields)
                    /\ IsPrefix(entry.Types[t].Methods, pkg.Types[t].Methods)
                    /\ IsPrefix(entry.Types[t].Embeds, pkg.Types[t].Embeds)
                    /\ entry.Types[t].Defined => pkg.Types[t].Defined
                    /\ entry.Types[t].IsStruct => pkg.Types[t].IsStruct
                    /\ entry.Types[t].IsInterface => pkg.Types[t].IsInterface

\* a second file of the same package has been scanned to its end: it added a
\* func after the one the first file declared
C6_Witness ==
    /\ nfiles = 2
    /\ pc = "idle"
    /\ ~err
    /\ SamePackage
    /\ Len(entry.Funcs) = 1
    /\ Len(pkg.Funcs) = 2

(***************************************************************************)
(* C7.  When a struct type declaration is scanned, every field-list entry  *)
(* of the body that has a name becomes an entry of Type.Fields, in         *)
(* declaration order, wherever it stands relative to the unnamed members.  *)
(***************************************************************************)
HasName(f) == Len(f.Names) > 0

C7_NamedFieldsBecomeFields ==
    IsStructDecl(cur) =>
        LET named == SelectSeq(cur.Specs[1].Type.Fields, HasName)
            typ == PkgType(pkg, cur.Specs[1].Name).val
        IN /\ Len(typ.Fields) >= Len(named)
           /\ \A i \in 1..Len(named) :
                 /\ LastN(typ.Fields, Len(named))[i].Name = named[i].Names[1]
                 /\ LastN(typ.Fields, Len(named))[i].Type = typeString(named[i].Type)

(***************************************************************************)
(* C8.  No name occurs more than once in the Embeds of a Type.             *)
(***************************************************************************)
C8_EmbedsDistinct ==
    pkg # NilPackage =>
        \A t \in 1..Len(pkg.Types) : NoDuplicates(pkg.Types[t].Embeds)

(***************************************************************************)
(* C9.  An unnamed member of a scanned struct body is recorded in          *)
(* Type.Embeds under the base type name of its type expression (the        *)
(* identifier under the pointer indirections), and Type.Embed of that      *)
(* name is true.                                                           *)
(***************************************************************************)
C9_EmbedUnderBaseName ==
    IsStructDecl(cur) =>
        LET fl == cur.Specs[1].Type.Fields
            typ == PkgType(pkg, cur.Specs[1].Name).val
        IN \A i \in 1..Len(fl) :
              (~HasName(fl[i]) /\ StripStars(fl[i].Type).k = "Ident") =>
                  /\ Embed(typ, StripStars(fl[i].Type).Name)
                  /\ \E e \in 1..Len(typ.Embeds) :
                        typ.Embeds[e] = StripStars(fl[i].Type).Name

(***************************************************************************)
(* C10.  typeString of a function type is "func (" + the parameter types   *)
(* joined by ", " + ")" followed by nothing when there is no result, by    *)
(* " " + the type when there is one result, by " (" + the result types     *)
(* joined by ", " + ")" when there are more, a field of k names counting   *)
(* as k entries of its type (a field without names as one).                *)
(***************************************************************************)
RECURSIVE EntryTypes(_)

\* the rendered type of every entry of a field list, a field of k names k times
EntryTypes(fl) ==
    IF Len(fl) = 0 THEN <<>>
    ELSE LET f == Head(fl)
             k == IF Len(f.Names) = 0 THEN 1 ELSE Len(f.Names)
         IN [i \in 1..k |-> typeString(f.Type)] \o EntryTypes(Tail(fl))

RECURSIVE JoinComma(_)

JoinComma(ss) ==
    IF Len(ss) = 0 THEN ""
    ELSE IF Len(ss) = 1 THEN ss[1]
    ELSE ss[1] \o ", " \o JoinComma(Tail(ss))

\* C10: the rendering of a function type is the claimed text
C10_FuncTypeRendering ==
    out.done =>
        LET ps == EntryTypes(x.Params)
            rs == EntryTypes(x.Results)
            clause == CASE Len(rs) = 0 -> ""
                        [] Len(rs) = 1 -> " " \o rs[1]
                        [] OTHER -> " (" \o JoinComma(rs) \o ")"
        IN out.s = "func (" \o JoinComma(ps) \o ")" \o clause

\* one result field of two names: two results, so the clause is parenthesised
C10_Witness ==
    /\ out.done
    /\ Len(x.Results) = 1
    /\ Len(x.Results[1].Names) = 2
    /\ out.s = "func (int) (int, int)"

(***************************************************************************)
(* Struct tags: what a tag text holds.  A pair is a non-empty key of bytes *)
(* other than space, control bytes, colon and double quote, then a colon,  *)
(* then a double-quoted Go string literal.                                 *)
(***************************************************************************)
IsKeyByte(c) == c \notin {" ", "\t", "\n", "\r", ":", "\""}

RECURSIVE IsEscaped(_, _)

\* in a text q that starts with an opening double quote: whether the byte
\* at position p > 1 follows a backslash that is not itself escaped
IsEscaped(q, p) ==
    p > 2 /\ q[p - 1] = "\\" /\ ~IsEscaped(q, p - 1)

\* the positions at which the literal opened at q[1] can close
Closers(q) == {p \in 2..Len(q) : q[p] = "\"" /\ ~IsEscaped(q, p)}

Least(S) == CHOOSE n \in S : \A m \in S : n <= m

\* the lengths of the keys of a well-formed pair at the start of t
PairKeys(t) ==
    {i \in 1..Len(t) :
        /\ \A n \in 1..i : IsKeyByte(t[n])
        /\ i + 2 <= Len(t)
        /\ t[i + 1] = ":"
        /\ t[i + 2] = "\""
        /\ Closers(SubSeq(t, i + 2, Len(t))) # {}
        /\ LET q == SubSeq(t, i + 2, Len(t))
           IN ~Unquote(SubSeq(q, 1, Least(Closers(q)))).err}

\* s without the spaces at its start
RECURSIVE TrimLeft(_)

TrimLeft(s) == IF Len(s) > 0 /\ s[1] = " " THEN TrimLeft(Tail(s)) ELSE s

RECURSIVE LeadingPairs(_)

\* the key and value of the well-formed pairs of s, separated by spaces or
\* by nothing, up to the first position that starts no well-formed pair
LeadingPairs(s) ==
    LET t == TrimLeft(s)
    IN IF PairKeys(t) = {} THEN <<>>
       ELSE LET i == Least(PairKeys(t))
                q == SubSeq(t, i + 2, Len(t))
                c == Least(Closers(q))
            IN <<[Name |-> SubSeq(t, 1, i),
                  Raw |-> Unquote(SubSeq(q, 1, c)).val]>>
                  \o LeadingPairs(SubSeq(q, c + 1, Len(q)))

NameAndRaw(values) ==
    [i \in 1..Len(values) |-> [Name |-> values[i].Name, Raw |-> values[i].Raw]]

\* C11: parseTag returns, for every tag text, a Tag whose Raw is the text and
\* whose Values are the well-formed pairs before the first malformed
\* position, in the order of the text; the text broken gives no entry.
C11_ParseTagKeepsLeadingPairs ==
    out # NotRendered =>
        /\ out.tag.Raw = x
        /\ NameAndRaw(out.tag.Values) = LeadingPairs(x)
        /\ (x = TagBroken => Len(out.tag.Values) = 0)

\* a pair, then a tab where a space or the next key is expected, then a pair
C11_Witness ==
    /\ out # NotRendered
    /\ x = TagPair \o <<"\t", "k", ":", "\"", "\"">>
    /\ Len(out.tag.Values) = 1
    /\ out.tag.Values[1].Raw = <<"j", " ", "k">>

(***************************************************************************)
(* The example tag json:"name,omitempty" xml:"Name".                       *)
(***************************************************************************)
KeyJson == <<"j", "s", "o", "n">>

KeyXml == <<"x", "m", "l">>

TextName == <<"n", "a", "m", "e">>

TextOmitempty == <<"o", "m", "i", "t", "e", "m", "p", "t", "y">>

TextNameOmitempty == TextName \o <<",">> \o TextOmitempty

JsonXmlParsed == out # NotRendered /\ x = TagJsonXml

TwoEntriesJsonXml ==
    /\ Len(out.tag.Values) = 2
    /\ out.tag.Values[1].Name = KeyJson
    /\ out.tag.Values[2].Name = KeyXml

\* C12 as stated: the example tag parses into the two entries json and xml,
\* and match("json", "name,omitempty") is false.
C12_CommaValueDoesNotMatch ==
    JsonXmlParsed =>
        /\ TwoEntriesJsonXml
        /\ ~match(out.tag, KeyJson, StringPtr(TextNameOmitempty))

\* C12, amended: the example tag parses into the two entries json and xml;
\* the value of json is the one token name,omitempty, so
\* match("json", "name,omitempty") is true and match("json", "name") and
\* match("json", "omitempty") are false.
C12_CommaValueIsOneToken ==
    JsonXmlParsed =>
        /\ TwoEntriesJsonXml
        /\ match(out.tag, KeyJson, StringPtr(TextNameOmitempty))
        /\ ~match(out.tag, KeyJson, StringPtr(TextName))
        /\ ~match(out.tag, KeyJson, StringPtr(TextOmitempty))

C12_Witness ==
    /\ JsonXmlParsed
    /\ out.tag.Values[1].Values = <<TextNameOmitempty>>
    /\ out.tag.Values[2].Values = <<<<"N", "a", "m", "e">>>>

(***************************************************************************)
(* Tag.match.  The tokens of a value are its maximal runs of bytes that    *)
(* are not white space, and the empty token when the value is empty or     *)
(* starts or ends with white space.                                        *)
(***************************************************************************)
IsToken(raw, t) ==
    IF Len(t) = 0
    THEN Len(raw) = 0 \/ IsSpace(raw[1]) \/ IsSpace(raw[Len(raw)])
    ELSE \E i \in 1..Len(raw) :
            LET j == i + Len(t) - 1
            IN /\ j <= Len(raw)
               /\ SubSeq(raw, i, j) = t
               /\ \A n \in 1..Len(t) : ~IsSpace(t[n])
               /\ (i = 1 \/ IsSpace(raw[i - 1]))
               /\ (j = Len(raw) \/ IsSpace(raw[j + 1]))

QueryKeys == {<<"k">>, <<"j">>, <<"\\">>, <<>>, KeyJson, KeyXml}

QueryValues ==
    {NilString}
        \cup {StringPtr(t) : t \in {<<>>, <<"j">>, <<"k">>, <<"j", " ", "k">>, <<" ">>,
                                    TextName, TextNameOmitempty}}

\* C13: match(key, value) is true exactly when some entry has the key and
\* either the value is nil or the value is one of the whitespace-separated
\* tokens of the entry; on the entry json:"name,omitempty",
\* match("json", nil) is true and match("json", "") is false.
C13_MatchIsKeyAndToken ==
    out # NotRendered =>
        /\ \A key \in QueryKeys, value \in QueryValues :
              match(out.tag, key, value)
                <=> \E i \in 1..Len(out.tag.Values) :
                        /\ out.tag.Values[i].Name = key
                        /\ (value.nil \/ IsToken(out.tag.Values[i].Raw, value.s))
        /\ (x = TagJsonXml =>
              /\ match(out.tag, KeyJson, NilString)
              /\ ~match(out.tag, KeyJson, StringPtr(<<>>)))

\* two entries of the key k: one token of the first matches, the whole
\* value of the first does not, the empty token of the second does
C13_Witness ==
    /\ out # NotRendered
    /\ x = TagPair \o <<"k", ":", "\"", " ", "\"">>
    /\ Len(out.tag.Values) = 2
    /\ match(out.tag, <<"k">>, StringPtr(<<"j">>))
    /\ ~match(out.tag, <<"k">>, StringPtr(<<"j", " ", "k">>))
    /\ match(out.tag, <<"k">>, StringPtr(<<>>))
    /\ ~match(out.tag, <<"j">>, NilString)

(***************************************************************************)
(* Type.FieldsByTag.  A query is "{tagName}" or "{tagName}:{value}".       *)
(***************************************************************************)
TagQueries == {<<"k">>, <<"j">>, <<"k", ":", "j">>, <<"k", ":", "k">>}

\* the position of the first colon of q, or Len(q) + 1
ColonAt(q) ==
    Least({i \in 1..Len(q) + 1 : i = Len(q) + 1 \/ q[i] = ":"})

QueryName(q) == SubSeq(q, 1, ColonAt(q) - 1)

QueryHasValue(q) == ColonAt(q) <= Len(q)

QueryValue(q) == SubSeq(q, ColonAt(q) + 1, Len(q))

\* whether the tag has an entry that the query asks for
TagAnswers(tag, q) ==
    \E i \in 1..Len(tag.Values) :
        /\ tag.Values[i].Name = QueryName(q)
        /\ (QueryHasValue(q) => IsToken(tag.Values[i].Raw, QueryValue(q)))

FieldsAnswering(typ, q) ==
    LET answers(f) == TagAnswers(f.Tag, q)
    IN SelectSeq(typ.Fields, answers)

\* C14: FieldsByTag(query) returns, in field order, exactly the fields whose
\* tag has an entry with the key of the query and, for a query with a
\* value, with that value among the tokens of the entry.
C14_FieldsByTagSelects ==
    pkg # NilPackage =>
        \A i \in 1..Len(pkg.Types) : \A q \in TagQueries :
            FieldsByTag(pkg.Types[i], q) = FieldsAnswering(pkg.Types[i], q)

(***************************************************************************)
(* Build directives of a file.                                             *)
(***************************************************************************)
\* the comments of the groups placed before the package clause, in order
BeforeClause(file) ==
    LET before(g) == g.Pos < file.Package
    IN commentsOf(SelectSeq(file.Comments, before))

GoBuildAt(comments) == {i \in 1..Len(comments) : IsGoBuild(comments[i])}

PlusBuildLines(comments) == SelectSeq(comments, IsPlusBuild)

AllTagSets == SUBSET (BuildWords \cup {"ignore"})

\* C15: extractBuildDirectives looks only at the comment groups before the
\* package clause and returns what the first //go:build line it meets
\* parses to, whatever +build lines precede it; without such a line, an
\* expression that is true exactly when one of the // +build lines is;
\* without any directive, nil.
C15_FirstGoBuildElseOrOfPlusBuild ==
    out # NotFiltered =>
        LET comments == BeforeClause(x.file)
            plus == PlusBuildLines(comments)
        IN IF GoBuildAt(comments) # {}
           THEN out.expr = Parse(comments[Least(GoBuildAt(comments))])
           ELSE IF Len(plus) = 0
           THEN out.expr = [err |-> FALSE, e |-> NilConstraint]
           ELSE /\ ~out.expr.err
                /\ out.expr.e # NilConstraint
                /\ \A tags \in AllTagSets :
                      Eval(out.expr.e, tags)
                        <=> \E i \in 1..Len(plus) : Eval(Parse(plus[i]).e, tags)

\* a +build line, then a //go:build line, and a +build line after the
\* package clause: the //go:build line alone decides
C15_Witness ==
    /\ out # NotFiltered
    /\ x.file = BuildFile(<<<<LinePlusNot, LineGoAnd>>, <<LinePlusSpace>>>>, 1)
    /\ out.expr = [err |-> FALSE, e |-> AndExpr(TagExpr("amd64"), TagExpr("linux"))]

\* the file's only directive is the given legacy line
OnlyDirective(line) ==
    /\ out # NotFiltered
    /\ BeforeClause(x.file) = <<line>>

\* C16 as stated: a file whose legacy line is "amd64 linux" is excluded
\* against the tag set {amd64} and included against {amd64, linux}.
C16_SpaceSeparatedIsAnd ==
    OnlyDirective(LinePlusSpace) =>
        /\ (x.tags = {"amd64"} => out.verdict = "delete")
        /\ (x.tags = {"amd64", "linux"} => out.verdict = "keep")

\* C16, amended: the blank-separated options of a legacy line are alternatives
\* and its comma-separated terms are all required.  A file whose line is
\* "amd64 linux" is included against {amd64}, {linux} and {amd64, linux} and
\* excluded against the empty tag set; a file whose line is "amd64,linux"
\* is excluded against {amd64} and included against {amd64, linux}.
C16_SpaceSeparatedIsOr ==
    /\ OnlyDirective(LinePlusSpace) =>
          out.verdict = (IF x.tags = {} THEN "delete" ELSE "keep")
    /\ OnlyDirective(LinePlusComma) =>
          out.verdict = (IF x.tags = {"amd64", "linux"} THEN "keep" ELSE "delete")

C16_Witness ==
    /\ OnlyDirective(LinePlusSpace)
    /\ x.tags = {"amd64"}
    /\ out.expr.e = OrExpr(TagExpr("amd64"), TagExpr("linux"))
    /\ out.verdict = "keep"

(***************************************************************************)
(* Sorted name lists.                                                      *)
(***************************************************************************)
NamesOf(seq) == {seq[i].Name : i \in 1..Len(seq)}

Ascending(names) == \A i, j \in 1..Len(names) : i < j => Less(names[i], names[j])

\* names lists every name of the entries once, in ascending order
SortedNamesOf(names, entries) ==
    /\ Ascending(names)
    /\ {names[i] : i \in 1..Len(names)} = NamesOf(entries)

\* C19: ValueNames, FuncNames and TypeNames return the names of the entries
\* in ascending byte order, each distinct name once, whatever the order in
\* which the entries were added and in which the index map is ranged over.
C19_NameListsSorted ==
    pkg # NilPackage =>
        /\ \A order \in Orders(DOMAIN pkg.valIdx) :
              SortedNamesOf(ValueNames(pkg, order), pkg.Values)
        /\ \A order \in Orders(DOMAIN pkg.funIdx) :
              SortedNamesOf(FuncNames(pkg, order), pkg.Funcs)
        /\ \A order \in Orders(DOMAIN pkg.typIdx) :
              SortedNamesOf(TypeNames(pkg, order), pkg.Types)

\* values added in the order VarFoo, A, B, C, then a type
C19_Witness ==
    /\ pkg # NilPackage
    /\ [i \in 1..Len(pkg.Values) |-> pkg.Values[i].Name] = <<"VarFoo", "A", "B", "C">>
    /\ Len(pkg.Types) = 1
    /\ \A order \in Orders(DOMAIN pkg.valIdx) :
          ValueNames(pkg, order) = <<"A", "B", "C", "VarFoo">>

(***************************************************************************)
(* readDir: which files are read.                                          *)
(***************************************************************************)
\* the file has no build constraint, or its constraint is true of the tags
Included(file, tags) ==
    LET r == extractBuildDirectives(file)
    IN r.e = NilConstraint \/ Eval(r.e, tags)

\* no directive of the directory fails to parse
DirParses ==
    \A q \in DOMAIN x.dir : \A f \in DOMAIN x.dir[q].Files :
        ~extractBuildDirectives(x.dir[q].Files[f]).err

IncludedFiles(q) ==
    {f \in DOMAIN x.dir[q].Files : Included(x.dir[q].Files[f], x.tags)}

\* the packages with a file to build
KeptPackages == {q \in DOMAIN x.dir : IncludedFiles(q) # {}}

RangeOf(seq) == {seq[i] : i \in 1..Len(seq)}

\* the names a func, method, var or const declaration declares
DeclaredBy(d) ==
    IF d.k = "FuncDecl" THEN {d.Name}
    ELSE UNION {RangeOf(d.Specs[j].Names) : j \in 1..Len(d.Specs)}

DeclNames(f) == UNION {DeclaredBy(FileDecls(f)[i]) : i \in 1..Len(FileDecls(f))}

\* the names of the values, of the funcs and of the methods of the types of p
EntryNames(p) ==
    NamesOf(p.Values) \cup NamesOf(p.Funcs)
        \cup UNION {NamesOf(p.Types[i].Methods) : i \in 1..Len(p.Types)}

\* C17: readDir hands a file of the package it reads to ScanFile exactly
\* when the file has no build constraint or its constraint is true of the
\* tag set; an excluded file adds no entry to the result; a package whose
\* files are all excluded is dropped, and when no package is left the
\* result is an empty Package and no error.
C17_OnlyIncludedFilesScanned ==
    (out # NotRead /\ DirParses) =>
        /\ KeptPackages = {} =>
              out.res = [err |-> FALSE, pkg |-> NewPackage(""), scanned |-> <<>>]
        /\ (KeptPackages # {} /\ ~out.res.err) =>
              /\ out.res.pkg.Name \in KeptPackages
              /\ RangeOf(out.res.scanned) = IncludedFiles(out.res.pkg.Name)
              /\ \A q \in DOMAIN x.dir : \A f \in DOMAIN x.dir[q].Files :
                    f \notin IncludedFiles(q) =>
                        DeclNames(f) \cap EntryNames(out.res.pkg) = {}
        /\ Cardinality(KeptPackages) = 1 => ~out.res.err

\* package p with a.go excluded and b.go included, package q with its only
\* file excluded: b.go alone is scanned
C17_Witness ==
    /\ out # NotRead
    /\ x.tags = {"amd64"}
    /\ DOMAIN x.dir = {"p", "q"}
    /\ DOMAIN x.dir["p"].Files = {"a.go", "b.go"}
    /\ IncludedFiles("p") = {"b.go"}
    /\ IncludedFiles("q") = {}
    /\ ~out.res.err
    /\ out.res.scanned = <<"b.go">>
    /\ EntryNames(out.res.pkg) = {"A", "VarFoo"}

(***************************************************************************)
(* readDir: which package is read.                                         *)
(***************************************************************************)
\* C18: when the packages of the directory with a file to build are a
\* package P and P_test, readDir returns P for testPackage = false and
\* P_test for testPackage = true, in whatever order the range over the
\* package map gives the two; two packages that are no such pair, or more
\* than two packages, give an error.
C18_PackageAndItsTestPackage ==
    (out # NotRead /\ DirParses) =>
        /\ \A n \in KeptPackages :
              KeptPackages = {n, n \o "_test"} =>
                  /\ ~out.res.err
                  /\ out.res.pkg.Name = (IF x.testPackage THEN n \o "_test" ELSE n)
        /\ (/\ Cardinality(KeptPackages) = 2
            /\ \A n \in KeptPackages : KeptPackages # {n, n \o "_test"}) => out.res.err
        /\ Cardinality(KeptPackages) > 2 => out.res.err

C18_Witness ==
    /\ out # NotRead
    /\ DOMAIN x.dir = {"p", "p_test"}
    /\ KeptPackages = {"p", "p_test"}
    /\ DOMAIN x.dir["p_test"].Files = {"a_test.go"}
    /\ x.testPackage
    /\ ~out.res.err
    /\ out.res.pkg.Name = "p_test"
    /\ out.res.scanned = <<"a_test.go">>

(***************************************************************************)
(* readDir: the order of the entries.                                      *)
(***************************************************************************)
\* the elements of the set of names S, in ascending order
AscendingOrder(S) == CHOOSE o \in Orders(S) : Ascending(o)

\* d declares a func (kind "func") or a method (kind "method")
IsOfKind(d, kind) ==
    d.k = "FuncDecl" /\ (d.Recv.nil <=> kind = "func")

NameSeq(seq) == [i \in 1..Len(seq) |-> seq[i].Name]

RECURSIVE DeclaredInOrder(_, _)

\* the names of the declarations of the kind, file after file
DeclaredInOrder(files, kind) ==
    IF Len(files) = 0 THEN <<>>
    ELSE LET ofKind(d) == IsOfKind(d, kind)
         IN NameSeq(SelectSeq(FileDecls(files[1]), ofKind))
                \o DeclaredInOrder(Tail(files), kind)

\* the methods of the type named T of p, none when p has no such type
MethodsOfT(p) ==
    LET isT(t) == t.Name = "T"
        ts == SelectSeq(p.Types, isT)
    IN IF Len(ts) = 0 THEN <<>> ELSE ts[1].Methods

DInterfaceT ==
    GenDecl("TYPE", <<TypeSpec("T", InterfaceType(<<Fld(<<"M">>, FuncType(<<>>, <<>>))>>))>>)

\* type T int
DNamedT == GenDecl("TYPE", <<TypeSpec("T", IntT)>>)

\* type I struct {}
DStructI == GenDecl("TYPE", <<TypeSpec("I", StructType(<<>>))>>)

KindDecls == {DStructB, DInterfaceT, DNamedT, DStructI, DInterface, DNamed, DMethodN}

NextKinds ==
    \/ \E name \in PkgNames : ScanFileBegin(name)
    \/ \E d \in KindDecls : ScanDecl(d)
    \/ ScanFileReturn

SpecKinds == Init /\ [][NextKinds]_vars

\* d is a type declaration of one type
IsTypeDecl(d) == d.k = "GenDecl" /\ d.Tok = "TYPE" /\ Len(d.Specs) = 1

\* the Types of the package the Parser holds
TypesOf(p) == IF p = NilPackage THEN <<>> ELSE p.Types

\* the Type t is flagged as a struct and as an interface
BothFlags(t) == t.IsStruct /\ t.IsInterface

\* the Type t is flagged as neither
NoFlag(t) == ~t.IsStruct /\ ~t.IsInterface

\* no Type of the package is flagged as a struct and as an interface
NoTypeHasBothFlags == \A i \in 1..Len(TypesOf(pkg)) : ~BothFlags(pkg.Types[i])

\* the Type that the scan of a struct or interface declaration has just
\* written has one of the flags
DeclaredKindIsFlagged ==
    (IsTypeDecl(cur) /\ cur.Specs[1].Type.k \in {"StructType", "InterfaceType"})
        => ~NoFlag(pkg.Types[TypePos(pkg, cur.Specs[1].Name)])

(***************************************************************************)
(* C21.  In every Package state reachable by scanning any sequence of      *)
(* declarations, no Type has both IsStruct and IsInterface true, and a     *)
(* Type has both false only while its structural contents are not known:   *)
(* the type entry that the scan of a struct or interface declaration has   *)
(* just written has one of the flags, so that a Type with neither is a     *)
(* receiver placeholder or was declared as neither.                        *)
(***************************************************************************)
C21_FlagsExclusive ==
    /\ NoTypeHasBothFlags
    /\ DeclaredKindIsFlagged

\* an entry with the key n was recorded in the tag
Recorded(tag, n) == \E i \in 1..Len(tag.Values) : tag.Values[i].Name = n

(***************************************************************************)
(* C22.  Tag.TagValue(n) reports found = true together with the entry      *)
(* exactly when an entry with the key n was recorded in the tag, and       *)
(* (nil, false) otherwise, as the lookups Package.Func, Package.Type,      *)
(* Type.Field and Type.Method do on their collections.                     *)
(***************************************************************************)
C22_TagValueReportsFound ==
    out # NotRendered =>
        \A n \in QueryKeys :
            LET r == TagValue(out.tag, n)
            IN /\ r.ok = Recorded(out.tag, n)
               /\ r.ok = Lookup(out.tag.Values, out.tag.valueIdx, n).ok
               /\ Recorded(out.tag, n) => (~r.nil /\ r.val.Name = n)
               /\ ~Recorded(out.tag, n) => r.nil

(***************************************************************************)
(* parseTag statement by statement.  pc is the position in the function    *)
(* ("head": the test of the outer loop, "skip", "key", "quoted": the tests *)
(* of the three inner loops, "colon" and "close": the if statements after  *)
(* the second and the third, "done": returned) and out holds its locals:   *)
(* tag, i, name and dst, with n0, the length of tag at the last test of    *)
(* the outer loop, and what the last step did to tag: rd, the indices it   *)
(* read, sl, the bounds of the slices it took, and rn, the length of tag   *)
(* when it did.  The inputs are the texts of at most MaxRunLen bytes over  *)
(* RunBytes, alone or after one well-formed pair.                          *)
(***************************************************************************)
RunBytes == {"k", ":", "\"", " ", "\\"}

RunInputs ==
    Texts(RunBytes, MaxRunLen) \cup {TagPair \o t : t \in Texts(RunBytes, MaxRunLen)}

InitRun ==
    /\ pkg = NilPackage
    /\ entry = NilPackage
    /\ fname = ""
    /\ cur = NoDecl
    /\ err = FALSE
    /\ nfiles = 0
    /\ ndecls = 0
    /\ x \in RunInputs
    /\ pc = "head"
    /\ out = [tag |-> x, i |-> 0, name |-> <<>>, dst |-> [EmptyTag EXCEPT !.Raw = x],
              n0 |-> Len(x), rd |-> {}, sl |-> {}, rn |-> Len(x)]

\* the locals o after a step that read the indices rd of o.tag and sliced it at sl
Touched(o, rd, sl) == [o EXCEPT !.rd = rd, !.sl = sl, !.rn = Len(o.tag)]

\* for tag != ""
LoopHead ==
    /\ pc = "head"
    /\ IF Len(out.tag) = 0
       THEN /\ pc' = "done"
            /\ out' = Touched(out, {}, {})
       ELSE /\ pc' = "skip"
            /\ out' = [Touched(out, {}, {}) EXCEPT !.i = 0, !.n0 = Len(out.tag)]
    /\ UNCHANGED <<pkg, entry, fname, cur, err, nfiles, ndecls, x>>

\* for i < len(tag) && tag[i] == ' ' { i++ }; tag = tag[i:]; if tag == "" { break }
SkipSpace ==
    /\ pc = "skip"
    /\ LET tag == out.tag
           i == out.i
           rd == IF i < Len(tag) THEN {i} ELSE {}
       IN IF i < Len(tag) /\ tag[i + 1] = " "
          THEN /\ pc' = "skip"
               /\ out' = [Touched(out, rd, {}) EXCEPT !.i = i + 1]
          ELSE /\ pc' = IF Len(From(tag, i)) = 0 THEN "done" ELSE "key"
               /\ out' = [Touched(out, rd, {i}) EXCEPT !.tag = From(tag, i), !.i = 0]
    /\ UNCHANGED <<pkg, entry, fname, cur, err, nfiles, ndecls, x>>

\* for i < len(tag) && tag[i] > ' ' && tag[i] != ':' && tag[i] != '"' && tag[i] != 0x7f { i++ }
ScanKey ==
    /\ pc = "key"
    /\ LET tag == out.tag
           i == out.i
           rd == IF i < Len(tag) THEN {i} ELSE {}
       IN IF i < Len(tag) /\ isKeyByte(tag[i + 1], Byte(tag[i + 1]))
          THEN /\ pc' = "key"
               /\ out' = [Touched(out, rd, {}) EXCEPT !.i = i + 1]
          ELSE /\ pc' = "colon"
               /\ out' = Touched(out, rd, {})
    /\ UNCHANGED <<pkg, entry, fname, cur, err, nfiles, ndecls, x>>

\* if i == 0 || i+1 >= len(tag) || tag[i] != ':' || tag[i+1] != '"' { break }
\* name := string(tag[:i]); tag = tag[i+1:]; i = 1
CheckColon ==
    /\ pc = "colon"
    /\ LET tag == out.tag
           i == out.i
           guarded == i = 0 \/ i + 1 >= Len(tag)
           rd == IF guarded THEN {}
                 ELSE IF tag[i + 1] # ":" THEN {i} ELSE {i, i + 1}
       IN IF guarded \/ tag[i + 1] # ":" \/ tag[i + 2] # "\""
          THEN /\ pc' = "done"
               /\ out' = Touched(out, rd, {})
          ELSE /\ pc' = "quoted"
               /\ out' = [Touched(out, rd, {i, i + 1})
                             EXCEPT !.name = SubSeq(tag, 1, i), !.tag = From(tag, i + 1), !.i = 1]
    /\ UNCHANGED <<pkg, entry, fname, cur, err, nfiles, ndecls, x>>

\* the quoted scan reading the escaped byte as well (a mutation of ScanQuoted)
ScanQuotedPeek ==
    /\ pc = "quoted"
    /\ LET tag == out.tag
           i == out.i
           rd == IF i < Len(tag) THEN {i} ELSE {}
       IN IF i < Len(tag) /\ tag[i + 1] # "\""
          THEN /\ pc' = "quoted"
               /\ out' = IF tag[i + 1] = "\\"
                         THEN [Touched(out, {i, i + 1}, {}) EXCEPT !.i = i + 2]
                         ELSE [Touched(out, rd, {}) EXCEPT !.i = i + 1]
          ELSE /\ pc' = "close"
               /\ out' = Touched(out, rd, {})
    /\ UNCHANGED <<pkg, entry, fname, cur, err, nfiles, ndecls, x>>

\* for i < len(tag) && tag[i] != '"' { if tag[i] == '\\' { i++ }; i++ }
ScanQuoted ==
    /\ pc = "quoted"
    /\ LET tag == out.tag
           i == out.i
           rd == IF i < Len(tag) THEN {i} ELSE {}
       IN IF i < Len(tag) /\ tag[i + 1] # "\""
          THEN /\ pc' = "quoted"
               /\ out' = [Touched(out, rd, {})
                             EXCEPT !.i = IF tag[i + 1] = "\\" THEN i + 2 ELSE i + 1]
          ELSE /\ pc' = "close"
               /\ out' = Touched(out, rd, {})
    /\ UNCHANGED <<pkg, entry, fname, cur, err, nfiles, ndecls, x>>

\* the locals after qvalue := string(tag[:i+1]); tag = tag[i+1:] and the
\* Unquote of qvalue, which gave u
Unquoted(o, u) ==
    [Touched(o, {}, {o.i + 1})
        EXCEPT !.tag = From(o.tag, o.i + 1),
               !.dst = IF u.err THEN o.dst
                       ELSE putTagValue(o.dst, parseTagValue(o.name, u.val))]

\* if i >= len(tag) { break }; qvalue := string(tag[:i+1]); tag = tag[i+1:]
\* value, err := strconv.Unquote(qvalue); if err != nil { break }
\* dst.putTagValue(parseTagValue(name, value))
CloseQuoted ==
    /\ pc = "close"
    /\ IF out.i >= Len(out.tag)
       THEN /\ pc' = "done"
            /\ out' = Touched(out, {}, {})
       ELSE /\ pc' = IF Unquote(SubSeq(out.tag, 1, out.i + 1)).err THEN "done" ELSE "head"
            /\ out' = Unquoted(out, Unquote(SubSeq(out.tag, 1, out.i + 1)))
    /\ UNCHANGED <<pkg, entry, fname, cur, err, nfiles, ndecls, x>>

NextRun ==
    \/ LoopHead
    \/ SkipSpace
    \/ ScanKey
    \/ CheckColon
    \/ ScanQuoted
    \/ CloseQuoted

\* the function runs on one goroutine with nothing to wait for: a statement
\* that can run does run
SpecRun == InitRun /\ [][NextRun]_vars /\ WF_vars(NextRun)

\* every index the last step read, and every bound of a slice it took, lies
\* inside the tag it was applied to
InBounds ==
    /\ \A j \in out.rd : 0 <= j /\ j < out.rn
    /\ \A j \in out.sl : 0 <= j /\ j <= out.rn

\* a step that comes back to the test of the outer loop has shortened the
\* input since the previous test
IterationShortens ==
    (pc # "head" /\ pc' = "head") => Len(out'.tag) < out.n0

\* the function has returned, with the Tag that parseTag computes
Returned == pc = "done" /\ out.dst = parseTag(x)

(***************************************************************************)
(* C23.  parseTag terminates on every input string: each iteration of its  *)
(* outer loop either exits the loop or strictly shortens the remaining     *)
(* input, and every index it reads (including the position after a         *)
(* trailing backslash inside a quoted value) lies inside the remaining     *)
(* input.                                                                  *)
(***************************************************************************)
C23_ParseTagTerminatesInBounds ==
    /\ []InBounds
    /\ [][IterationShortens]_vars
    /\ <>Returned

\* the input k:"j k"k:"\ has been parsed: the second quoted value ends with a
\* backslash, the scan stepped over the byte after it, past the end of the
\* input, and the function returned with the first pair
C23_Witness ==
    /\ x = TagPair \o <<"k", ":", "\"", "\\">>
    /\ pc = "done"
    /\ out.i = Len(out.tag) + 1
    /\ Len(out.dst.Values) = 1
    /\ out.dst = parseTag(x)

=============================================================================
